---------------------------- MODULE Spec2Model ----------------------------
(***************************************************************************)
(* TmuxWatchManager (src/src/manager.ts): the subscription store, the poll *)
(* scheduler and the stability detector, as a state machine.               *)
(*                                                                         *)
(* One action is one run of a piece of code between two suspension points  *)
(* (an await on file I/O, on the capture command or on the notification    *)
(* pipeline).  An await on an already settled promise is not a suspension  *)
(* point of the model.                                                     *)
(*                                                                         *)
(* An optional field (T | undefined) is a set: {} is undefined, {v} is v.  *)
(***************************************************************************)
EXTENDS Integers, Sequences, FiniteSets, TLC

(***************************************************************************)
(* Bounds of the model.                                                    *)
(***************************************************************************)
\* Spec: entry objects ({subscription, runtime}) created in one behaviour
MaxEntries == 2
\* Spec: writes of the durable record (this process's and other writers')
MaxWrites == 1
\* Spec: cap of WatchRuntime.stableTicks
MaxTicks == 2
\* Spec: stable events of one runtime
MaxEvents == 1

(***************************************************************************)
(* Program constants.                                                      *)
(***************************************************************************)
STATE_VERSION == 1
DEFAULT_CAPTURE_INTERVAL_SECONDS == 10
DEFAULT_STABLE_COUNT == 6
MIN_INTERVAL_MS == 200

Undef == {}
Some(v) == {v}
IsNumber(x) == x # {}
Get(x) == CHOOSE v \in x : TRUE
\* a Math.max that forgets its first argument
MaxOfSecond(a, b) == b
Max(a, b) == IF a >= b THEN a ELSE b
\* Math.ceil(a / b), b > 0
CeilDiv(a, b) == -((-a) \div b)

(***************************************************************************)
(* Pure helpers of manager.ts.  A number of a subscription or of the       *)
(* configuration is held in fixed point: the integer v stands for          *)
(* v / Scale, so that fractions reach Math.trunc and Math.ceil (the        *)
(* products are exact, where those of a double may be off in the last      *)
(* place).                                                                 *)
(***************************************************************************)
\* the numbers of the model are the multiples of 1 / Scale
Scale == 10000
\* the whole number n, optional
Whole(x) == {n * Scale : n \in x}
\* Math.trunc
Trunc(v) == IF v >= 0 THEN v \div Scale ELSE -((-v) \div Scale)

resolveIntervalMs(subscription, cfg) ==
    LET captureIntervalSeconds ==
            IF IsNumber(subscription.captureIntervalSeconds)
            THEN subscription.captureIntervalSeconds
            ELSE IF IsNumber(cfg.captureIntervalSeconds)
                 THEN cfg.captureIntervalSeconds
                 ELSE Undef
    IN  IF IsNumber(captureIntervalSeconds)
        THEN Max(MIN_INTERVAL_MS, Trunc(Get(captureIntervalSeconds) * 1000))
        ELSE LET raw == IF IsNumber(subscription.intervalMs)
                        THEN Get(subscription.intervalMs)
                        ELSE IF IsNumber(cfg.pollIntervalMs)
                             THEN Get(cfg.pollIntervalMs)
                             ELSE DEFAULT_CAPTURE_INTERVAL_SECONDS * 1000 * Scale
             IN  Max(MIN_INTERVAL_MS, Trunc(raw))

resolveStableCount(subscription, cfg) ==
    LET rawCount ==
            IF IsNumber(subscription.stableCount) THEN subscription.stableCount
            ELSE IF IsNumber(cfg.stableCount) THEN cfg.stableCount
                 ELSE Undef
        stableSeconds ==
            IF IsNumber(subscription.stableSeconds) THEN subscription.stableSeconds
            ELSE IF IsNumber(cfg.stableSeconds) THEN cfg.stableSeconds
                 ELSE Undef
    IN  IF IsNumber(rawCount) THEN Max(1, Trunc(Get(rawCount)))
        ELSE IF IsNumber(stableSeconds)
             THEN Max(1, CeilDiv(Get(stableSeconds) * 1000,
                                 resolveIntervalMs(subscription, cfg) * Scale))
             ELSE DEFAULT_STABLE_COUNT

resolveStableTicks(subscription, cfg) == resolveStableCount(subscription, cfg)

\* sha256 hex digest (its first 12 digits): injective on Outputs, never ""
hashOutput(output) ==
    CASE output = ""  -> "e3b0c44298fc"
      [] output = "x" -> "2d711642b726"
      [] output = "y" -> "a1fce4363854"

createRuntime ==
    [running |-> FALSE, stableTicks |-> 0, lastHash |-> Undef,
     lastOutput |-> Undef, lastNotifiedHash |-> Undef, lastError |-> Undef,
     timer |-> 0]


(***************************************************************************)
(* Values                                                                  *)
(***************************************************************************)
Ids == {"a", "b"}
\* the order in which an array of subscriptions is walked
IdSeq == <<"a", "b">>
Outputs == {"", "x", "y"}

\* TmuxWatchSubscription (stableCount: a whole number, optional)
Sub(id, target, enabled, stableCount) ==
    [id |-> id, target |-> target, enabled |-> enabled,
     stableCount |-> Whole(stableCount), stableSeconds |-> Undef,
     captureIntervalSeconds |-> Undef, intervalMs |-> Undef]
NoSub == Sub("", "", Undef, Undef)

\* the content of subscriptions.json: kind is "json" (parses, with a
\* version and an array of subscriptions), "object" (parses, to a value
\* whose subscriptions is not an array), "missing" (ENOENT) or "corrupt"
\* (does not parse)
Doc(kind, version, subs) == [kind |-> kind, version |-> version, subs |-> subs]
DocOk(subs) == Doc("json", STATE_VERSION, subs)
DocOtherVersion(subs) == Doc("json", STATE_VERSION + 1, subs)
DocMissing == Doc("missing", 0, {})
DocCorrupt == Doc("corrupt", 0, {})
DocNoArray == Doc("object", STATE_VERSION, {})

\* TmuxWatchConfig, as resolveTmuxWatchConfig returns it (stableCount: a
\* whole number, optional)
Config(enabled, stableCount) ==
    [enabled |-> enabled, stableCount |-> Whole(stableCount),
     stableSeconds |-> Undef,
     captureIntervalSeconds |-> Undef, pollIntervalMs |-> Undef]

(***************************************************************************)
(* State                                                                   *)
(***************************************************************************)
VARIABLES
    config,            \* this.config
    active,            \* this.active
    loaded,            \* this.loaded
    stateMtimeMs,      \* this.stateMtimeMs
    stateSyncPromise,  \* this.stateSyncPromise: "null" or "pending"
    passes,            \* the reconciliation passes in flight (the async
                       \* function of syncStateFromDiskIfNeeded)
    stateSyncTimer,    \* this.stateSyncTimer is armed
    entries,           \* this.entries: id -> entry object (0: no entry)
    ent,               \* the WatchEntry objects created so far
    rt,                \* the WatchRuntime objects created so far
    ticks,             \* per entry object: the timer callbacks in flight
    disk,              \* subscriptions.json: [doc, mtimeMs], and seen
                       \* (history): this process has read or written
                       \* the content it holds
    writes,            \* writes of subscriptions.json so far
    startPc,           \* where the call of start() is
    op,                \* the call of addSubscription/removeSubscription in flight
    hist,              \* per runtime: what the detector has seen (history)
    lim,               \* the bounds of the behaviour: [entries, writes,
                       \* ticks, events]
    sessionStore,      \* the session store file readSessionStore reads:
                       \* Undef (unreadable) or Some(its records, in order)
    notifyCall,        \* the call of resolveNotifyTargets in flight
    calc               \* the last call of a pure function: [fn, args, out]

vars == <<config, active, loaded, stateMtimeMs, stateSyncPromise, passes,
          stateSyncTimer, entries, ent, rt, ticks, disk, writes, startPc, op,
          hist, lim, sessionStore, notifyCall, calc>>

notifyVars == <<sessionStore, notifyCall>>

EntryIds == 1..Len(ent)
RtIds == 1..Len(rt)
RtOf(e) == ent[e].runtime

NoTicks == [waiting |-> FALSE, capturing |-> 0, notifying |-> 0]
\* run: consecutive successful captures with the same content handled last;
\* pristine: no failed capture and no content change so far;
\* failed: a capture has failed since the last content change;
\* ev: stable events since the last content change;
\* log: the stable events, each with the history it was emitted in;
\* arms: the setInterval calls that armed a capture timer for the runtime,
\* counted up to lim.arms
NoHist == [run |-> 0, pristine |-> TRUE, failed |-> FALSE, ev |-> 0,
           log |-> <<>>, arms |-> 0]
\* a call of addSubscription or removeSubscription: its position (pc) and
\* its locals, and extern (history): another writer has written the durable
\* record since the call began; stale (history): a pass has reconciled the
\* managed set, since the call began, with a record read before the call's
\* write
\* a call of resolveNotifyTargets: its position (pc) and its locals, with
\* what readSessionStore returned to it
NoCall == [pc |-> "idle", mode |-> "", configured |-> <<>>, store |-> {},
           last |-> <<>>, result |-> <<>>, dispatchedPrimary |-> FALSE,
           delivers |-> 0, next |-> 0, sent |-> <<>>, outcomes |-> <<>>]
NoCalc == [fn |-> "", args |-> <<>>, out |-> <<>>]
NoOp == [kind |-> "none", pc |-> "", id |-> "", input |-> NoSub,
         subscription |-> NoSub, existing |-> 0, payload |-> {},
         extern |-> FALSE, stale |-> FALSE]

\* the heap: the managed set with the objects it refers to
Heap == [entries |-> entries, ent |-> ent, rt |-> rt, ticks |-> ticks,
         hist |-> hist]

(***************************************************************************)
(* The durable record                                                      *)
(***************************************************************************)
\* the records ensureLoaded and reconcileEntriesFromState keep
ValidSubs(subs) == {s \in subs : s.id # "" /\ s.target # ""}

\* the parsed content is returned whatever its version
loadStateAnyVersion(d) == d.doc.subs

\* loadState: the subscriptions of the state it returns
loadState(d) ==
    IF d.doc.kind = "json" /\ d.doc.version = STATE_VERSION
    THEN d.doc.subs ELSE {}

\* a record that cannot be read or parsed is taken for an empty document
loadStateForSyncNeverNull(d) ==
    Some(IF d.doc.kind = "json" /\ d.doc.version = STATE_VERSION
         THEN d.doc.subs ELSE {})

\* loadStateForSync: Some(subscriptions), or Undef for null
loadStateForSync(d) ==
    CASE d.doc.kind = "json" ->
             Some(IF d.doc.version = STATE_VERSION THEN d.doc.subs ELSE {})
      [] d.doc.kind \in {"object", "missing"} -> Some({})
      [] OTHER -> Undef

readStateMtimeMs(d) == IF d.doc.kind = "missing" THEN 0 ELSE d.mtimeMs

(***************************************************************************)
(* Timers and the managed set                                              *)
(***************************************************************************)
isManagedEntry(H, e) ==
    LET id == H.ent[e].subscription.id
    IN  id # "" /\ H.entries[id] = e

shouldWatchEntry(H, act, e) ==
    act /\ isManagedEntry(H, e) /\ H.ent[e].subscription.enabled # Some(FALSE)

stopWatchTimer(H, e) == [H EXCEPT !.rt[H.ent[e].runtime].timer = 0]

\* setInterval's callback closes over the entry object: timer holds it
startWatch(H, e) ==
    LET H1 == stopWatchTimer(H, e)
    IN  IF H1.ent[e].subscription.enabled = Some(FALSE)
        THEN H1
        ELSE [H1 EXCEPT !.rt[H1.ent[e].runtime].timer = e,
                        !.hist[H1.ent[e].runtime].arms =
                            IF @ < lim.arms THEN @ + 1 ELSE @]

\* entries.set(id, {subscription, runtime: createRuntime()})
SetNewEntry(H, subscription) ==
    [entries |-> [H.entries EXCEPT ![subscription.id] = Len(H.ent) + 1],
     ent |-> Append(H.ent, [subscription |-> subscription,
                            runtime |-> Len(H.rt) + 1]),
     rt |-> Append(H.rt, createRuntime),
     ticks |-> Append(H.ticks, NoTicks),
     hist |-> Append(H.hist, NoHist)]

SubWithId(subs, id) == CHOOSE s \in ValidSubs(subs) : s.id = id
HasId(subs, id) == \E s \in ValidSubs(subs) : s.id = id

\* ensureLoaded's loop over state.subscriptions
RECURSIVE LoadEntries(_, _, _)
LoadEntries(H, subs, i) ==
    IF i > Len(IdSeq) THEN H
    ELSE IF HasId(subs, IdSeq[i])
         THEN LoadEntries(SetNewEntry(H, SubWithId(subs, IdSeq[i])), subs, i + 1)
         ELSE LoadEntries(H, subs, i + 1)

\* no entry is dropped
DropMissingNone(H, subs, i) == H

\* reconcileEntriesFromState, first loop: entries no longer in the state
RECURSIVE DropMissing(_, _, _)
DropMissing(H, subs, i) ==
    IF i > Len(IdSeq) THEN H
    ELSE LET id == IdSeq[i]
         IN  IF H.entries[id] # 0 /\ ~HasId(subs, id)
             THEN LET H1 == stopWatchTimer(H, H.entries[id])
                  IN  DropMissing([H1 EXCEPT !.entries[id] = 0], subs, i + 1)
             ELSE DropMissing(H, subs, i + 1)

\* reconcileEntriesFromState, second loop: one record of the state
ReconcileOne(H, act, subscription) ==
    LET existing == H.entries[subscription.id]
    IN  IF existing = 0
        THEN LET H1 == SetNewEntry(H, subscription)
             IN  IF act /\ subscription.enabled # Some(FALSE)
                 THEN startWatch(H1, H1.entries[subscription.id])
                 ELSE H1
        ELSE LET H1 == [H EXCEPT !.ent[existing].subscription = subscription]
             IN  IF act /\ subscription.enabled # Some(FALSE)
                 THEN startWatch(H1, existing)
                 ELSE stopWatchTimer(H1, existing)

RECURSIVE ReconcileEach(_, _, _, _)
ReconcileEach(H, act, subs, i) ==
    IF i > Len(IdSeq) THEN H
    ELSE IF HasId(subs, IdSeq[i])
         THEN ReconcileEach(ReconcileOne(H, act, SubWithId(subs, IdSeq[i])),
                            act, subs, i + 1)
         ELSE ReconcileEach(H, act, subs, i + 1)

reconcileEntriesFromState(H, act, subs) ==
    ReconcileEach(DropMissing(H, subs, 1), act, subs, 1)

(***************************************************************************)
(* pollWatch                                                               *)
(***************************************************************************)
Truthy(x) == x # Undef /\ Get(x) # ""

\* pollWatch up to its await of captureOutput
pollWatchBegin(H, act, e) ==
    IF ~shouldWatchEntry(H, act, e) THEN stopWatchTimer(H, e)
    ELSE IF H.rt[H.ent[e].runtime].running THEN H
    ELSE [H EXCEPT !.rt[H.ent[e].runtime].running = TRUE,
                   !.ticks[e].capturing = @ + 1]

\* a changed capture keeps lastNotifiedHash
DetectKeepNotified(runtime, output) ==
    LET hash == hashOutput(output)
    IN  IF Truthy(runtime.lastHash) /\ runtime.lastHash = Some(hash)
        THEN [runtime EXCEPT !.stableTicks = @ + 1]
        ELSE [runtime EXCEPT !.lastHash = Some(hash),
                             !.lastOutput = Some(output),
                             !.stableTicks = 0]

\* an empty capture never continues a run
DetectEmptyResets(runtime, output) ==
    LET hash == hashOutput(output)
    IN  IF output # "" /\ runtime.lastHash = Some(hash)
        THEN [runtime EXCEPT !.stableTicks = @ + 1]
        ELSE [runtime EXCEPT !.lastHash = Some(hash),
                             !.lastOutput = Some(output),
                             !.stableTicks = 0,
                             !.lastNotifiedHash = Undef]

\* the comparison with the previous capture (the runtime's fields)
Detect(runtime, output) ==
    LET hash == hashOutput(output)
    IN  IF Truthy(runtime.lastHash) /\ runtime.lastHash = Some(hash)
        THEN [runtime EXCEPT !.stableTicks = @ + 1]
        ELSE [runtime EXCEPT !.lastHash = Some(hash),
                             !.lastOutput = Some(output),
                             !.stableTicks = 0,
                             !.lastNotifiedHash = Undef]

\* notifyStable is called whenever the threshold is reached
ShouldNotifyEveryTime(runtime, hash, stableTicks) ==
    runtime.stableTicks >= stableTicks

\* whether pollWatch calls notifyStable for this capture
ShouldNotify(runtime, hash, stableTicks) ==
    runtime.stableTicks >= stableTicks /\ runtime.lastNotifiedHash # Some(hash)

\* a failed capture keeps stableTicks
CaptureFailedKeepTicks(runtime) == runtime

\* a failed capture forgets the hash that was notified
CaptureFailedRearms(runtime) ==
    [runtime EXCEPT !.stableTicks = 0, !.lastNotifiedHash = Undef]

\* the runtime after a capture that returned null
CaptureFailed(runtime) == [runtime EXCEPT !.stableTicks = 0]

\* the history of a runtime after a capture that returned null
FailHist(h) == [h EXCEPT !.run = 0, !.pristine = FALSE, !.failed = TRUE]

\* the history of a runtime after a handled capture
DetectHist(h, before, after, notify) ==
    LET same == after.stableTicks > 0
        h1 == IF same THEN [h EXCEPT !.run = @ + 1]
              ELSE [h EXCEPT !.run = 1, !.ev = 0, !.failed = FALSE,
                             !.pristine = @ /\ before.lastHash = Undef]
    IN  IF notify
        THEN [h1 EXCEPT !.ev = @ + 1,
                        !.log = Append(@, [hash |-> Get(after.lastHash),
                                           run |-> h1.run,
                                           pristine |-> h1.pristine,
                                           failed |-> h1.failed])]
        ELSE h1

\* pollWatch from the return of captureOutput (result: Undef for null,
\* Some(output) otherwise) to its await of notifyStable or to its end
pollWatchCaptured(H, act, cfg, e, result) ==
    LET r == H.ent[e].runtime
        done == [H EXCEPT !.ticks[e].capturing = @ - 1]
    IN  IF result = Undef
        THEN [done EXCEPT !.rt[r] = [CaptureFailed(@) EXCEPT !.running = FALSE],
                          !.hist[r] = FailHist(@)]
        ELSE IF ~shouldWatchEntry(H, act, e)
        THEN [stopWatchTimer(done, e) EXCEPT !.rt[r].running = FALSE]
        ELSE LET after == [Detect(H.rt[r], Get(result))
                              EXCEPT !.lastError = Undef]
                 hash == hashOutput(Get(result))
                 notify == ShouldNotify(after, hash,
                              resolveStableTicks(H.ent[e].subscription, cfg))
             IN  [done EXCEPT
                    !.rt[r] = IF notify
                              THEN [after EXCEPT !.lastNotifiedHash = Some(hash)]
                              ELSE [after EXCEPT !.running = FALSE],
                    !.ticks[e].notifying = IF notify THEN @ + 1 ELSE @,
                    !.hist[r] = DetectHist(@, H.rt[r], after, notify)]

\* pollWatch from the return of notifyStable: the finally block
pollWatchNotified(H, e) ==
    [H EXCEPT !.rt[H.ent[e].runtime].running = FALSE,
              !.ticks[e].notifying = @ - 1]

(***************************************************************************)
(* Inputs                                                                  *)
(***************************************************************************)
SubA == Sub("a", "t", Undef, Undef)
SubADisabled == Sub("a", "t", Some(FALSE), Undef)
SubB == Sub("b", "t", Undef, Some(1))
\* records ensureLoaded and the reconciliation drop
SubNoId == Sub("", "t", Undef, Undef)
SubNoTarget == Sub("b", "", Undef, Undef)

Results(outputs) == {Undef} \cup {Some(o) : o \in outputs}

\* Spec: one subscription id, every operation
Configs == {Config(TRUE, Some(1)), Config(FALSE, Some(1))}
InitialDocs == {DocMissing, DocOk({SubA})}
ExternalDocs == {DocOk({SubADisabled}), DocOk({}), DocOk({SubA})}
AddInputs == {SubA, SubADisabled}
RemoveInputs == {"a"}
SpecOutputs == {"x"}

(***************************************************************************)
(* Initial state: a constructed manager, before start()                    *)
(***************************************************************************)
InitWith(configs, docs, limits) ==
    /\ sessionStore = Undef
    /\ notifyCall = NoCall
    /\ calc = NoCalc
    /\ lim = limits
    /\ config \in configs
    /\ active = FALSE
    /\ loaded = FALSE
    /\ stateMtimeMs = 0
    /\ stateSyncPromise = "null"
    /\ passes = <<>>
    /\ stateSyncTimer = FALSE
    /\ entries = [id \in Ids |-> 0]
    /\ ent = <<>>
    /\ rt = <<>>
    /\ ticks = <<>>
    /\ hist = <<>>
    /\ disk \in {[doc |-> d, mtimeMs |-> IF d.kind = "missing" THEN 0 ELSE 1,
                  seen |-> FALSE] : d \in docs}
    /\ writes = 0
    /\ startPc = "idle"
    /\ op = NoOp

Init ==
    InitWith(Configs, InitialDocs,
             [entries |-> MaxEntries, writes |-> MaxWrites, ticks |-> MaxTicks,
              events |-> MaxEvents, arms |-> 0])

\* An entry object nothing refers to any more (the map, a callback in
\* flight, an armed timer, a call's local) is garbage, and so is a runtime
\* of garbage entries only: their fields are reset, which no code can see.
DeadEntry == [subscription |-> NoSub, runtime |-> 0]
LiveEntry(H, o, e) ==
    /\ H.ent[e].runtime # 0
    /\ \/ isManagedEntry(H, e)
       \/ H.ticks[e] # NoTicks
       \/ H.rt[H.ent[e].runtime].timer = e
       \/ o.existing = e
Collect(H, o) ==
    LET liveRt == {H.ent[e].runtime : e \in {x \in 1..Len(H.ent) : LiveEntry(H, o, x)}}
    IN  [H EXCEPT
           !.ent = [e \in 1..Len(H.ent) |->
                      IF LiveEntry(H, o, e) THEN H.ent[e] ELSE DeadEntry],
           !.rt = [r \in 1..Len(H.rt) |->
                      IF r \in liveRt THEN H.rt[r] ELSE createRuntime],
           !.hist = [r \in 1..Len(H.rt) |->
                      IF r \in liveRt THEN H.hist[r] ELSE NoHist]]

\* the heap after a step; o is the call in flight after the step
SetHeap(H, o) ==
    /\ Len(H.ent) <= lim.entries
    /\ LET C == Collect(H, o)
       IN  /\ entries' = C.entries
           /\ ent' = C.ent
           /\ rt' = C.rt
           /\ ticks' = C.ticks
           /\ hist' = C.hist

(***************************************************************************)
(* start() and stop()                                                      *)
(***************************************************************************)
RECURSIVE StartAll(_, _)
StartAll(H, i) ==
    IF i > Len(IdSeq) THEN H
    ELSE IF H.entries[IdSeq[i]] # 0
         THEN StartAll(startWatch(H, H.entries[IdSeq[i]]), i + 1)
         ELSE StartAll(H, i + 1)

RECURSIVE StopAll(_, _)
StopAll(H, i) ==
    IF i > Len(IdSeq) THEN H
    ELSE IF H.entries[IdSeq[i]] # 0
         THEN StopAll(stopWatchTimer(H, H.entries[IdSeq[i]]), i + 1)
         ELSE StopAll(H, i + 1)

\* start(), config.enabled false: returns
StartDisabled ==
    /\ startPc = "idle"
    /\ ~config.enabled
    /\ UNCHANGED vars

\* start() to its await of loadState (in ensureLoaded) or, when the state
\* is loaded, to its await of ensureTmuxAvailable
StartCall ==
    /\ startPc = "idle"
    /\ config.enabled
    /\ active' = TRUE
    /\ IF loaded
       THEN stateSyncTimer' = TRUE /\ startPc' = "tmux"
       ELSE stateSyncTimer' = stateSyncTimer /\ startPc' = "load"
    /\ UNCHANGED <<calc, notifyVars, lim, config, loaded, stateMtimeMs, stateSyncPromise, passes,
                   entries, ent, rt, ticks, disk, writes, op, hist>>

\* ensureLoaded in start(): loadState returned, to the await of
\* readStateMtimeMs
StartLoadState ==
    /\ startPc = "load"
    /\ SetHeap(LoadEntries(Heap, loadState(disk), 1), op)
    /\ startPc' = "mtime"
    /\ disk' = [disk EXCEPT !.seen = TRUE]
    /\ UNCHANGED <<calc, notifyVars, lim, config, active, loaded, stateMtimeMs, stateSyncPromise,
                   passes, stateSyncTimer, writes, op>>

\* ensureLoaded in start(): readStateMtimeMs returned; then
\* startStateSyncLoop, to the await of ensureTmuxAvailable
StartMtime ==
    /\ startPc = "mtime"
    /\ stateMtimeMs' = readStateMtimeMs(disk)
    /\ loaded' = TRUE
    /\ stateSyncTimer' = active
    /\ startPc' = "tmux"
    /\ UNCHANGED <<calc, notifyVars, lim, config, active, stateSyncPromise, passes, entries, ent,
                   rt, ticks, disk, writes, op, hist>>

\* start(): ensureTmuxAvailable returned; startWatch for every entry
StartFinish ==
    /\ startPc = "tmux"
    /\ SetHeap(StartAll(Heap, 1), op)
    /\ startPc' = "idle"
    /\ UNCHANGED <<calc, notifyVars, lim, config, active, loaded, stateMtimeMs, stateSyncPromise,
                   passes, stateSyncTimer, disk, writes, op>>

\* stop()
Stop ==
    /\ active' = FALSE
    /\ stateSyncTimer' = FALSE
    /\ SetHeap(StopAll(Heap, 1), op)
    /\ UNCHANGED <<calc, notifyVars, lim, config, loaded, stateMtimeMs, stateSyncPromise, passes,
                   disk, writes, startPc, op>>

(***************************************************************************)
(* Other writers of the durable record                                     *)
(***************************************************************************)
\* an own call in flight keeps one write of the budget
WriteBudget == lim.writes - (IF op.kind = "none" THEN 0 ELSE 1)

ExternalWrite(d) ==
    /\ writes < WriteBudget
    /\ d # disk.doc
    /\ writes' = writes + 1
    /\ disk' = [doc |-> d,
                mtimeMs |-> IF d.kind = "missing" THEN 0 ELSE writes + 2,
                seen |-> FALSE]
    /\ op' = IF op.kind = "none" THEN op ELSE [op EXCEPT !.extern = TRUE]
    /\ UNCHANGED <<calc, notifyVars, lim, config, active, loaded, stateMtimeMs, stateSyncPromise,
                   passes, stateSyncTimer, entries, ent, rt, ticks,
                   startPc, hist>>

(***************************************************************************)
(* syncStateFromDiskIfNeeded and the timers' callbacks                     *)
(***************************************************************************)
\* the callbacks awaiting stateSyncPromise go on with pollWatch
RECURSIVE Release(_, _, _)
Release(H, act, e) ==
    IF e > Len(H.ent) THEN H
    ELSE IF H.ticks[e].waiting
         THEN Release(pollWatchBegin([H EXCEPT !.ticks[e].waiting = FALSE],
                                     act, e), act, e + 1)
         ELSE Release(H, act, e + 1)

\* every trigger starts a pass of its own
syncStateFromDiskAlways(S) ==
    [promise |-> "pending",
     passes |-> Append(S.passes, [pc |-> "stat", mtimeMs |-> 0])]

\* syncStateFromDiskIfNeeded up to its await (this.loaded holds whenever a
\* timer is armed): a pass is started unless one is pending.  S is
\* [promise, passes]; a pass is [pc, mtimeMs], its position and its local
syncStateFromDiskIfNeeded(S) ==
    IF S.promise # "null" THEN S
    ELSE [promise |-> "pending",
          passes |-> Append(S.passes, [pc |-> "stat", mtimeMs |-> 0])]

RemoveAt(s, i) == SubSeq(s, 1, i - 1) \o SubSeq(s, i + 1, Len(s))

\* pass i ends: finally stateSyncPromise = null, and the awaiting callbacks
\* go on
PassEnd(H, i) ==
    /\ stateSyncPromise' = "null"
    /\ passes' = RemoveAt(passes, i)
    /\ SetHeap(Release(H, active, 1), op)

\* the state sync timer's callback
SyncTimerFire ==
    /\ stateSyncTimer
    /\ loaded
    /\ LET S == syncStateFromDiskIfNeeded([promise |-> stateSyncPromise,
                                           passes |-> passes])
       IN  /\ S.passes # passes
           /\ stateSyncPromise' = S.promise
           /\ passes' = S.passes
    /\ UNCHANGED <<calc, notifyVars, lim, config, active, loaded, stateMtimeMs, stateSyncTimer,
                   entries, ent, rt, ticks, disk, writes, startPc, op, hist>>

\* the callback of an entry's capture timer, to its await of
\* syncStateFromDiskIfNeeded
TickFire(e) ==
    /\ ent[e].runtime # 0
    /\ rt[RtOf(e)].timer = e
    /\ loaded
    /\ ~ticks[e].waiting
    /\ ticks' = [ticks EXCEPT ![e].waiting = TRUE]
    /\ LET S == syncStateFromDiskIfNeeded([promise |-> stateSyncPromise,
                                           passes |-> passes])
       IN  stateSyncPromise' = S.promise /\ passes' = S.passes
    /\ UNCHANGED <<calc, notifyVars, lim, config, active, loaded, stateMtimeMs, stateSyncTimer,
                   entries, ent, rt, disk, writes, startPc, op, hist>>

\* pass i: readStateMtimeMs returned
SyncStat(i) ==
    /\ passes[i].pc = "stat"
    /\ LET mtimeMs == readStateMtimeMs(disk)
       IN  IF mtimeMs = stateMtimeMs
           THEN PassEnd(Heap, i)
           ELSE /\ passes' = [passes EXCEPT ![i] = [pc |-> "load",
                                                    mtimeMs |-> mtimeMs]]
                /\ UNCHANGED <<stateSyncPromise, entries, ent, rt, ticks, hist>>
    /\ UNCHANGED <<calc, notifyVars, lim, config, active, loaded, stateMtimeMs, stateSyncTimer, disk,
                   writes, startPc, op>>

\* pass i: loadStateForSync returned
SyncLoad(i) ==
    /\ passes[i].pc = "load"
    /\ LET state == loadStateForSync(disk)
       IN  IF state = Undef
           THEN PassEnd(Heap, i) /\ UNCHANGED <<stateMtimeMs, disk>>
           ELSE /\ stateMtimeMs' = passes[i].mtimeMs
                /\ disk' = [disk EXCEPT !.seen = TRUE]
                /\ PassEnd(reconcileEntriesFromState(Heap, active, Get(state)), i)
    /\ op' = IF op.kind # "none" /\ op.pc # "stat"
                /\ loadStateForSync(disk) # Undef
             THEN [op EXCEPT !.stale = TRUE] ELSE op
    /\ UNCHANGED <<calc, notifyVars, lim, config, active, loaded, stateSyncTimer, writes,
                   startPc>>

(***************************************************************************)
(* pollWatch's suspension points                                           *)
(***************************************************************************)
\* captureOutput returned result
CaptureDone(e, result) ==
    /\ ticks[e].capturing > 0
    /\ LET H == pollWatchCaptured(Heap, active, config, e, result)
       IN  /\ H.rt[RtOf(e)].stableTicks <= lim.ticks
           /\ Len(H.hist[RtOf(e)].log) <= lim.events
           /\ SetHeap(H, op)
    /\ UNCHANGED <<calc, notifyVars, lim, config, active, loaded, stateMtimeMs, stateSyncPromise,
                   passes, stateSyncTimer, disk, writes, startPc, op>>

\* notifyStable returned or threw, and the finally of pollWatch ran (the
\* error a thrown call leaves in lastError is in NotifyThrow)
NotifyDone(e) ==
    /\ ticks[e].notifying > 0
    /\ SetHeap(pollWatchNotified(Heap, e), op)
    /\ UNCHANGED <<calc, notifyVars, lim, config, active, loaded, stateMtimeMs, stateSyncPromise,
                   passes, stateSyncTimer, disk, writes, startPc, op>>

(***************************************************************************)
(* addSubscription and removeSubscription                                  *)
(***************************************************************************)
\* String.prototype.trim on the strings of the inputs
Trim(str) ==
    CASE str = " " -> ""
      [] str = " t " -> "t"
      [] str = " 7 " -> "7"
      [] OTHER -> str

\* every key is set, to undefined when the input does not give it
sanitizeSubscriptionInput(input) ==
    [id |-> Trim(input.id), target |-> Trim(input.target),
     enabled |-> input.enabled, stableCount |-> input.stableCount,
     stableSeconds |-> input.stableSeconds,
     captureIntervalSeconds |-> input.captureIntervalSeconds,
     intervalMs |-> input.intervalMs]

\* {...a, ...b}: a key of b wins, also when its value is undefined
Spread(a, b) ==
    [k \in DOMAIN a \cup DOMAIN b |-> IF k \in DOMAIN b THEN b[k] ELSE a[k]]

\* saveState's payload.subscriptions
Payload(H) ==
    {H.ent[H.entries[id]].subscription : id \in {i \in Ids : H.entries[i] # 0}}

\* addSubscription from ensureLoaded's return to its await in saveState
\* (inputs without an id, which get a randomUUID, are not drawn)
AddBody(H, input) ==
    LET id == Trim(input.id)
        existing == H.entries[id]
        subscription ==
            [Spread(IF existing # 0 THEN H.ent[existing].subscription
                    ELSE [id |-> id],
                    sanitizeSubscriptionInput(input)) EXCEPT !.id = id]
        H1 == IF existing # 0
              THEN [H EXCEPT !.entries[id] = Len(H.ent) + 1,
                             !.ent = Append(@, [subscription |-> subscription,
                                                runtime |-> H.ent[existing].runtime]),
                             !.ticks = Append(@, NoTicks)]
              ELSE SetNewEntry(H, subscription)
        o == [NoOp EXCEPT !.kind = "add", !.pc = "mkdir", !.id = id,
                          !.input = input, !.subscription = subscription,
                          !.existing = existing]
    IN  SetHeap(H1, o) /\ op' = o

\* removeSubscription from ensureLoaded's return to its await in saveState,
\* or to return false
RemoveBody(H, id) ==
    LET entry == H.entries[id]
    IN  IF entry = 0
        THEN SetHeap(H, NoOp) /\ op' = NoOp
        ELSE /\ SetHeap([stopWatchTimer(H, entry) EXCEPT !.entries[id] = 0], NoOp)
             /\ op' = [NoOp EXCEPT !.kind = "remove", !.pc = "mkdir", !.id = id]

AddCall(input) ==
    /\ op.kind = "none"
    /\ writes < lim.writes
    /\ IF loaded
       THEN AddBody(Heap, input)
       ELSE /\ op' = [NoOp EXCEPT !.kind = "add", !.pc = "load", !.input = input]
            /\ UNCHANGED <<entries, ent, rt, ticks, hist>>
    /\ UNCHANGED <<calc, notifyVars, lim, config, active, loaded, stateMtimeMs, stateSyncPromise,
                   passes, stateSyncTimer, disk, writes, startPc>>

RemoveCall(id) ==
    /\ op.kind = "none"
    /\ writes < lim.writes
    /\ IF loaded
       THEN RemoveBody(Heap, id)
       ELSE /\ op' = [NoOp EXCEPT !.kind = "remove", !.pc = "load", !.id = id]
            /\ UNCHANGED <<entries, ent, rt, ticks, hist>>
    /\ UNCHANGED <<calc, notifyVars, lim, config, active, loaded, stateMtimeMs, stateSyncPromise,
                   passes, stateSyncTimer, disk, writes, startPc>>

\* ensureLoaded in the call: loadState returned
OpLoadState ==
    /\ op.pc = "load"
    /\ SetHeap(LoadEntries(Heap, loadState(disk), 1), op)
    /\ op' = [op EXCEPT !.pc = "mtime"]
    /\ disk' = [disk EXCEPT !.seen = TRUE]
    /\ UNCHANGED <<calc, notifyVars, lim, config, active, loaded, stateMtimeMs, stateSyncPromise,
                   passes, stateSyncTimer, writes, startPc>>

\* ensureLoaded in the call: readStateMtimeMs returned; the call goes on
OpMtime ==
    /\ op.pc = "mtime"
    /\ stateMtimeMs' = readStateMtimeMs(disk)
    /\ loaded' = TRUE
    /\ IF op.kind = "add" THEN AddBody(Heap, op.input)
       ELSE RemoveBody(Heap, op.id)
    /\ UNCHANGED <<calc, notifyVars, lim, config, active, stateSyncPromise, passes,
                   stateSyncTimer, disk, writes, startPc>>

\* saveState: mkdir returned; the payload is built and writeFile called
SaveMkdir ==
    /\ op.pc = "mkdir"
    /\ op' = [op EXCEPT !.pc = "write", !.payload = Payload(Heap)]
    /\ UNCHANGED <<calc, notifyVars, lim, config, active, loaded, stateMtimeMs, stateSyncPromise,
                   passes, stateSyncTimer, entries, ent, rt, ticks, disk,
                   writes, startPc, hist>>

\* saveState: writeFile returned
SaveWrite ==
    /\ op.pc = "write"
    /\ writes' = writes + 1
    /\ disk' = [doc |-> DocOk(op.payload), mtimeMs |-> writes + 2,
                seen |-> TRUE]
    /\ op' = [op EXCEPT !.pc = "stat"]
    /\ UNCHANGED <<calc, notifyVars, lim, config, active, loaded, stateMtimeMs, stateSyncPromise,
                   passes, stateSyncTimer, entries, ent, rt, ticks,
                   startPc, hist>>

\* addSubscription after saveState: startWatch(this.entries.get(id)!), which
\* throws when the id is no longer in the map, or stopWatchTimer(existing)
AddFinish(H, act, o) ==
    IF act /\ o.subscription.enabled # Some(FALSE)
    THEN IF H.entries[o.id] # 0 THEN startWatch(H, H.entries[o.id]) ELSE H
    ELSE IF o.existing # 0 THEN stopWatchTimer(H, o.existing) ELSE H

\* saveState: readStateMtimeMs returned; the call goes on to its return
SaveStat ==
    /\ op.pc = "stat"
    /\ stateMtimeMs' = readStateMtimeMs(disk)
    /\ SetHeap(IF op.kind = "add" THEN AddFinish(Heap, active, op) ELSE Heap, NoOp)
    /\ op' = NoOp
    /\ UNCHANGED <<calc, notifyVars, lim, config, active, loaded, stateSyncPromise, passes,
                   stateSyncTimer, disk, writes, startPc>>

\* saveState: mkdir or writeFile rejected, and with it the call; a writeFile
\* that fails leaves the file as it was or truncated
SaveFail ==
    /\ op.pc \in {"mkdir", "write"}
    /\ \/ UNCHANGED <<disk, writes>>
       \/ /\ op.pc = "write"
          /\ writes' = writes + 1
          /\ disk' = [doc |-> DocCorrupt, mtimeMs |-> writes + 2,
                      seen |-> FALSE]
    /\ SetHeap(Heap, NoOp)
    /\ op' = NoOp
    /\ UNCHANGED <<calc, notifyVars, lim, config, active, loaded, stateMtimeMs,
                   stateSyncPromise, passes, stateSyncTimer, startPc>>

(***************************************************************************)
(* The specification                                                       *)
(***************************************************************************)
Next ==
    \/ StartDisabled
    \/ StartCall
    \/ StartLoadState
    \/ StartMtime
    \/ StartFinish
    \/ Stop
    \/ \E d \in ExternalDocs : ExternalWrite(d)
    \/ SyncTimerFire
    \/ \E e \in EntryIds : TickFire(e)
    \/ \E i \in 1..Len(passes) : SyncStat(i)
    \/ \E i \in 1..Len(passes) : SyncLoad(i)
    \/ \E e \in EntryIds : \E result \in Results(SpecOutputs) :
          CaptureDone(e, result)
    \/ \E e \in EntryIds : NotifyDone(e)
    \/ \E input \in AddInputs : AddCall(input)
    \/ \E id \in RemoveInputs : RemoveCall(id)
    \/ OpLoadState
    \/ OpMtime
    \/ SaveMkdir
    \/ SaveWrite
    \/ SaveStat

Spec == Init /\ [][Next]_vars

(***************************************************************************)
(* The stability detector: one subscription of a started manager, captures *)
(* of three contents (one of them empty) and failed captures               *)
(***************************************************************************)
\* SpecDetect: cap of WatchRuntime.stableTicks
DetectMaxTicks == 7
\* SpecDetect: stable events of one runtime
DetectMaxEvents == 2
\* SpecDetect: entry objects
DetectMaxEntries == 1
\* SpecDetect: writes of the durable record
DetectMaxWrites == 0

SubA1 == Sub("a", "t", Undef, Some(1))
\* thresholds 1 (the subscription's), 2 (the config's) and 6 (the default)
DetectConfigs == {Config(TRUE, Some(2)), Config(TRUE, Undef)}
DetectDocs == {DocOk({SubA}), DocOk({SubA1})}
DetectOutputs == Outputs

InitDetect ==
    InitWith(DetectConfigs, DetectDocs,
             [entries |-> DetectMaxEntries, writes |-> DetectMaxWrites,
              ticks |-> DetectMaxTicks, events |-> DetectMaxEvents, arms |-> 0])

NextDetect ==
    \/ StartCall
    \/ StartLoadState
    \/ StartMtime
    \/ StartFinish
    \/ SyncTimerFire
    \/ \E e \in EntryIds : TickFire(e)
    \/ \E i \in 1..Len(passes) : SyncStat(i)
    \/ \E e \in EntryIds : \E result \in Results(DetectOutputs) :
          CaptureDone(e, result)
    \/ \E e \in EntryIds : NotifyDone(e)

SpecDetect == InitDetect /\ [][NextDetect]_vars

(***************************************************************************)
(* Reconciliation: a started manager and other writers of the durable      *)
(* record, two subscription ids, records without id or target, documents   *)
(* that do not parse or have another version                               *)
(***************************************************************************)
\* SpecSync: entry objects
SyncMaxEntries == 3
\* SpecSync: writes of the durable record
SyncMaxWrites == 2
\* SpecSync: cap of WatchRuntime.stableTicks
SyncMaxTicks == 1
\* SpecSync: stable events of one runtime
SyncMaxEvents == 1

SyncConfigs == {Config(TRUE, Some(1))}
SyncInitialDocs == {DocOk({SubA})}
SyncDocs ==
    {DocOk({}), DocOk({SubA}), DocOk({SubADisabled, SubB}),
     DocOk({SubB, SubNoId}), DocOk({SubA, SubNoTarget}),
     DocCorrupt, DocOtherVersion({SubA}), DocMissing}

InitSync ==
    InitWith(SyncConfigs, SyncInitialDocs,
             [entries |-> SyncMaxEntries, writes |-> SyncMaxWrites,
              ticks |-> SyncMaxTicks, events |-> SyncMaxEvents, arms |-> 0])

NextSync ==
    \/ StartCall
    \/ StartLoadState
    \/ StartMtime
    \/ StartFinish
    \/ Stop
    \/ \E d \in SyncDocs : ExternalWrite(d)
    \/ SyncTimerFire
    \/ \E e \in EntryIds : TickFire(e)
    \/ \E i \in 1..Len(passes) : SyncStat(i)
    \/ \E i \in 1..Len(passes) : SyncLoad(i)
    \/ \E e \in EntryIds : \E result \in Results(SpecOutputs) :
          CaptureDone(e, result)
    \/ \E e \in EntryIds : NotifyDone(e)

SpecSync == InitSync /\ [][NextSync]_vars

(***************************************************************************)
(* The store: addSubscription and removeSubscription of a manager that may *)
(* be started, with its state sync passes and another writer of the        *)
(* durable record; two subscription ids, a target of blanks, documents     *)
(* that loadState does not accept.  The capture timers do not fire.        *)
(***************************************************************************)
\* SpecStore: entry objects
StoreMaxEntries == 5
\* SpecStore: writes of the durable record
StoreMaxWrites == 3

SubBlankTarget == Sub("b", " ", Undef, Undef)
StoreInitialDocs ==
    {DocMissing, DocCorrupt, DocNoArray, DocOtherVersion({SubA}),
     DocOk({SubADisabled})}
StoreDocs == {DocOk({SubADisabled, SubB}), DocOk({})}
StoreAddInputs == {SubA, SubBlankTarget}
StoreRemoveInputs == {"a"}

InitStore ==
    InitWith(SyncConfigs, StoreInitialDocs,
             [entries |-> StoreMaxEntries, writes |-> StoreMaxWrites,
              ticks |-> 0, events |-> 0, arms |-> 0])

NextStore ==
    \/ StartCall
    \/ StartLoadState
    \/ StartMtime
    \/ StartFinish
    \/ \E d \in StoreDocs : ExternalWrite(d)
    \/ SyncTimerFire
    \/ \E i \in 1..Len(passes) : SyncStat(i)
    \/ \E i \in 1..Len(passes) : SyncLoad(i)
    \/ \E input \in StoreAddInputs : AddCall(input)
    \/ \E id \in StoreRemoveInputs : RemoveCall(id)
    \/ OpLoadState
    \/ OpMtime
    \/ SaveMkdir
    \/ SaveWrite
    \/ SaveStat

SpecStore == InitStore /\ [][NextStore]_vars

(***************************************************************************)
(* The targets of a notification: resolveNotifyTargets with the session    *)
(* store it reads.  A thread id that parseThreadId turns into a number is  *)
(* written as its decimal string; of a session record the deliveryContext  *)
(* and updatedAt are modelled.                                             *)
(***************************************************************************)
INTERNAL_LAST_CHANNELS == {"webchat", "tui"}

\* NotifyTarget
Target(channel, target, accountId, threadId, label) ==
    [channel |-> channel, target |-> target, accountId |-> accountId,
     threadId |-> threadId, label |-> label]
\* SessionEntryLike
SessionEntry(channel, to, accountId, threadId, updatedAt) ==
    [channel |-> channel, to |-> to, accountId |-> accountId,
     threadId |-> threadId, updatedAt |-> updatedAt]

\* typeof x === "string" ? x.trim() : undefined
TrimOpt(x) == IF x = Undef THEN Undef ELSE Some(Trim(Get(x)))
\* x ?? ""
OrEmpty(x) == IF x = Undef THEN "" ELSE Get(x)

parseThreadId(value) ==
    IF value = Undef \/ Trim(Get(value)) = "" THEN Undef
    ELSE Some(Trim(Get(value)))

sanitizeTargets(targets) ==
    SelectSeq([i \in 1..Len(targets) |->
                  Target(Trim(targets[i].channel), Trim(targets[i].target),
                         TrimOpt(targets[i].accountId),
                         TrimOpt(targets[i].threadId),
                         TrimOpt(targets[i].label))],
              LAMBDA t : t.channel # "" /\ t.target # "")

\* notify is subscription.notify, with no mode (Undef) or no targets (<<>>)
\* when absent; cfgNotify is config.notify
resolveNotifyMode(notify, cfgNotify) ==
    IF notify.mode # Undef THEN Get(notify.mode) ELSE cfgNotify.mode

resolveNotifyTargetList(notify, cfgNotify) ==
    IF Len(notify.targets) > 0 THEN sanitizeTargets(notify.targets)
    ELSE sanitizeTargets(cfgNotify.targets)

\* a ResolvedTarget
Resolved(t, threadId, label, source) ==
    [channel |-> t.channel, target |-> t.target, accountId |-> t.accountId,
     threadId |-> threadId, label |-> label, source |-> source]

\* the key dedupeTargets and snapshotKey join with "|" (no string of the
\* model holds a "|")
TargetKey(t) ==
    <<t.channel, t.target, OrEmpty(t.accountId), OrEmpty(t.threadId)>>

\* every target is kept
dedupeKeepAll(targets) == targets

RECURSIVE DedupeFrom(_, _, _, _)
DedupeFrom(targets, i, seen, out) ==
    IF i > Len(targets) THEN out
    ELSE IF TargetKey(targets[i]) \in seen
         THEN DedupeFrom(targets, i + 1, seen, out)
         ELSE DedupeFrom(targets, i + 1, seen \cup {TargetKey(targets[i])},
                         Append(out, targets[i]))

dedupeTargets(targets) == DedupeFrom(targets, 1, {}, <<>>)

isInternalLastChannel(channel) == channel \in INTERNAL_LAST_CHANNELS

\* Some(TargetSnapshot) or Undef for null
extractTargetSnapshot(entry) ==
    LET channel == OrEmpty(TrimOpt(entry.channel))
        target == OrEmpty(TrimOpt(entry.to))
        accountId == OrEmpty(TrimOpt(entry.accountId))
    IN  IF channel = "" \/ target = "" THEN Undef
        ELSE Some([channel |-> channel, target |-> target,
                   accountId |-> IF accountId = "" THEN Undef
                                 ELSE Some(accountId),
                   threadId |-> entry.threadId])

snapshotKey(snapshot) == TargetKey(snapshot)

toResolvedTarget(snapshot, source) ==
    Resolved(snapshot, parseThreadId(snapshot.threadId), Undef, source)

\* typeof entry.updatedAt === "number" ? entry.updatedAt : 0
UpdatedAt(entry) == IF entry.updatedAt = Undef THEN 0 ELSE Get(entry.updatedAt)

\* a record of the store is [key, entry]; Object.values walks them in order
RECURSIVE LatestFrom(_, _, _, _)
LatestFrom(store, excludeKey, i, best) ==
    IF i > Len(store) THEN best
    ELSE LET snapshot == extractTargetSnapshot(store[i].entry)
             updatedAt == UpdatedAt(store[i].entry)
         IN  IF \/ snapshot = Undef
                \/ isInternalLastChannel(Get(snapshot).channel)
                \/ snapshotKey(Get(snapshot)) = excludeKey
             THEN LatestFrom(store, excludeKey, i + 1, best)
             ELSE IF best = Undef \/ updatedAt > Get(best).updatedAt
                  THEN LatestFrom(store, excludeKey, i + 1,
                                  Some([updatedAt |-> updatedAt,
                                        target |-> Get(snapshot)]))
                  ELSE LatestFrom(store, excludeKey, i + 1, best)

\* the first external destination of the store, whatever its update time
findFirstExternalTarget(store, exclude) ==
    LET ext == SelectSeq(store, LAMBDA r :
                   /\ extractTargetSnapshot(r.entry) # Undef
                   /\ ~isInternalLastChannel(
                          Get(extractTargetSnapshot(r.entry)).channel))
    IN  IF Len(ext) = 0 THEN Undef
        ELSE Some(Get(extractTargetSnapshot(ext[1].entry)))

\* Some(TargetSnapshot) or Undef for null
findLatestExternalTarget(store, exclude) ==
    LET best == LatestFrom(store, snapshotKey(exclude), 1, Undef)
    IN  IF best = Undef THEN Undef ELSE Some(Get(best).target)

\* an internal last destination yields no target
resolveLastExternalOnly(store, sessionKey) ==
    LET found == SelectSeq(store, LAMBDA r : r.key = sessionKey)
        primary == IF Len(found) = 0 THEN Undef
                   ELSE extractTargetSnapshot(found[1].entry)
    IN  IF primary = Undef \/ isInternalLastChannel(Get(primary).channel)
        THEN <<>>
        ELSE <<toResolvedTarget(Get(primary), "last")>>

resolveLastTargetsFromStore(store, sessionKey) ==
    LET found == SelectSeq(store, LAMBDA r : r.key = sessionKey)
    IN  IF Len(found) = 0 THEN <<>>
        ELSE LET primary == extractTargetSnapshot(found[1].entry)
             IN  IF primary = Undef THEN <<>>
                 ELSE IF ~isInternalLastChannel(Get(primary).channel)
                      THEN <<toResolvedTarget(Get(primary), "last")>>
                      ELSE LET fallback ==
                                   findLatestExternalTarget(store, Get(primary))
                           IN  IF fallback # Undef
                               THEN <<toResolvedTarget(Get(fallback),
                                                       "last-fallback")>>
                               ELSE <<toResolvedTarget(Get(primary), "last")>>

\* resolveLastTargets: store is what readSessionStore returned
resolveLastTargets(store, sessionKey) ==
    IF store = Undef THEN <<>>
    ELSE resolveLastTargetsFromStore(Get(store), sessionKey)

\* the targets resolveNotifyTargets pushes for the configured ones
ConfiguredTargets(configured) ==
    [i \in 1..Len(configured) |->
        Resolved(configured[i], parseThreadId(configured[i].threadId),
                 configured[i].label, "targets")]

\* inputs: targets that need trimming, repeat one another or lack an
\* address; session records on internal and external channels, without an
\* address, without an update time
SessionKey == "k"
TargetA == Target("telegram", "t", Undef, Undef, Undef)
TargetB == Target("telegram", "u", Some("acc"), Some(" 7 "), Undef)
SubNotifies ==
    {[mode |-> Undef, targets |-> <<>>],
     [mode |-> Some("targets+last"), targets |-> <<TargetA, TargetB>>],
     [mode |-> Some("last"),
      targets |-> <<Target("telegram", " t ", Some(" "), Some(" "), Some("x"))>>]}
CfgNotifies ==
    {[mode |-> m, targets |-> l] :
        m \in {"last", "targets", "targets+last"},
        l \in {<<>>, <<TargetA, TargetB>>,
               <<TargetB,
                 Target("telegram", " t ", Some(" "), Some(" "), Some("x")),
                 TargetA>>,
               <<Target("slack", " ", Undef, Undef, Undef), TargetA>>}}
\* the file is unreadable, or holds the session's record first or last with
\* up to two other records
SessionStores ==
    LET primaries ==
            {SessionEntry(Some("webchat"), Some("w"), Undef, Undef, Some(9)),
             SessionEntry(Some("telegram"), Some(" t "), Some(" "), Undef, Some(1)),
             SessionEntry(Some("tui"), Undef, Undef, Undef, Some(1))}
        others ==
            {SessionEntry(Some("telegram"), Some("t"), Undef, Undef, Some(1)),
             SessionEntry(Some("telegram"), Some("u"), Some("acc"), Some("7"), Some(2)),
             SessionEntry(Some("slack"), Some("t"), Undef, Undef, Undef),
             SessionEntry(Some("slack"), Undef, Undef, Undef, Some(3)),
             SessionEntry(Some("tui"), Some("t"), Undef, Undef, Some(4))}
        stores ==
            {<<>>}
            \cup {<<[key |-> SessionKey, entry |-> e]>> : e \in primaries}
            \cup {<<[key |-> SessionKey, entry |-> e],
                    [key |-> "p", entry |-> x]>> : e \in primaries, x \in others}
            \cup {<<[key |-> "p", entry |-> x], [key |-> "q", entry |-> y],
                    [key |-> SessionKey, entry |-> e]>> :
                    e \in primaries, x \in others, y \in others}
    IN  {Undef} \cup {Some(s) : s \in stores}

\* resolveNotifyTargets to its await of resolveLastTargets, or to its return
ResolveCall(notify, cfgNotify) ==
    /\ notifyCall.pc = "idle"
    /\ LET mode == resolveNotifyMode(notify, cfgNotify)
           includeTargets == mode \in {"targets", "targets+last"}
           includeLast == mode \in {"last", "targets+last"}
           configured == IF includeTargets
                         THEN ConfiguredTargets(
                                  resolveNotifyTargetList(notify, cfgNotify))
                         ELSE <<>>
       IN  notifyCall' =
               IF includeLast
               THEN [notifyCall EXCEPT !.pc = "last", !.mode = mode,
                                       !.configured = configured]
               ELSE [notifyCall EXCEPT !.pc = "done", !.mode = mode,
                                       !.configured = configured,
                                       !.result = dedupeTargets(configured)]
    /\ UNCHANGED <<calc, sessionStore, lim, config, active, loaded, stateMtimeMs,
                   stateSyncPromise, passes, stateSyncTimer, entries, ent, rt,
                   ticks, disk, writes, startPc, op, hist>>

\* resolveLastTargets returned: the targets are deduplicated and returned
ResolveLast ==
    /\ notifyCall.pc = "last"
    /\ LET lastTargets == resolveLastTargets(sessionStore, SessionKey)
       IN  notifyCall' =
               [notifyCall EXCEPT
                   !.pc = "done", !.store = sessionStore,
                   !.last = lastTargets,
                   !.result = dedupeTargets(notifyCall.configured \o lastTargets)]
    /\ UNCHANGED <<calc, sessionStore, lim, config, active, loaded, stateMtimeMs,
                   stateSyncPromise, passes, stateSyncTimer, entries, ent, rt,
                   ticks, disk, writes, startPc, op, hist>>

\* the caller has taken the result
ResolveReturn ==
    /\ notifyCall.pc = "done"
    /\ notifyCall' = NoCall
    /\ UNCHANGED <<calc, sessionStore, lim, config, active, loaded, stateMtimeMs,
                   stateSyncPromise, passes, stateSyncTimer, entries, ent, rt,
                   ticks, disk, writes, startPc, op, hist>>

\* the gateway rewrites the session store
SessionStoreWrite(s) ==
    /\ s # sessionStore
    /\ sessionStore' = s
    /\ UNCHANGED <<calc, notifyCall, lim, config, active, loaded, stateMtimeMs,
                   stateSyncPromise, passes, stateSyncTimer, entries, ent, rt,
                   ticks, disk, writes, startPc, op, hist>>

InitNotify ==
    InitWith(SyncConfigs, {DocMissing},
             [entries |-> 0, writes |-> 0, ticks |-> 0, events |-> 0, arms |-> 0])

NextNotify ==
    \/ \E n \in SubNotifies : \E c \in CfgNotifies : ResolveCall(n, c)
    \/ ResolveLast
    \/ ResolveReturn
    \/ \E s \in SessionStores : SessionStoreWrite(s)

SpecNotify == InitNotify /\ [][NextNotify]_vars

(***************************************************************************)
(* Reconciliation under fair scheduling: a call of start() that has begun  *)
(* goes on, an armed state sync timer fires, a pass in flight goes on.     *)
(* Nothing is assumed of the capture timers and of the other writers.      *)
(***************************************************************************)
\* SpecLive: entry objects
LiveMaxEntries == 3
\* SpecLive: writes of the durable record
LiveMaxWrites == 1
\* SpecLive: cap of WatchRuntime.stableTicks
LiveMaxTicks == 1
\* SpecLive: stable events of one runtime
LiveMaxEvents == 1

\* parseable documents of the current version
LiveDocs == {DocOk({}), DocOk({SubA}), DocOk({SubADisabled, SubB})}

InitLive ==
    InitWith(SyncConfigs, SyncInitialDocs,
             [entries |-> LiveMaxEntries, writes |-> LiveMaxWrites,
              ticks |-> LiveMaxTicks, events |-> LiveMaxEvents, arms |-> 0])

NextLive ==
    \/ StartCall
    \/ StartLoadState
    \/ StartMtime
    \/ StartFinish
    \/ \E d \in LiveDocs : ExternalWrite(d)
    \/ SyncTimerFire
    \/ \E e \in EntryIds : TickFire(e)
    \/ \E i \in 1..Len(passes) : SyncStat(i)
    \/ \E i \in 1..Len(passes) : SyncLoad(i)
    \/ \E e \in EntryIds : \E result \in Results(SpecOutputs) :
          CaptureDone(e, result)
    \/ \E e \in EntryIds : NotifyDone(e)

\* the awaits of start() return
StartStep == StartLoadState \/ StartMtime \/ StartFinish
\* the state sync timer fires when armed, the awaits of a pass return
SyncStep ==
    \/ SyncTimerFire
    \/ \E i \in 1..Len(passes) : SyncStat(i)
    \/ \E i \in 1..Len(passes) : SyncLoad(i)

SpecLive ==
    /\ InitLive
    /\ [][NextLive]_vars
    /\ WF_vars(StartStep)
    /\ WF_vars(SyncStep)

(***************************************************************************)
(* notifyStable: a stable event from the resolution of its targets to the  *)
(* end of the poll tick that raised it.  notifyCall holds the locals of    *)
(* the call; sent lists the calls of sendToTarget in order, outcomes (a    *)
(* history field kept from call to call) the number of targets each call   *)
(* of notifyStable resolved.                                               *)
(***************************************************************************)
\* SpecDeliver: entry objects
DeliverMaxEntries == 1
\* SpecDeliver: cap of WatchRuntime.stableTicks
DeliverMaxTicks == 2
\* SpecDeliver: stable events of one runtime
DeliverMaxEvents == 2
\* SpecDeliver: calls of deliver by the reply dispatcher in one dispatch
MaxDelivers == 2

\* the channels sendToTarget has a case for
SupportedChannels ==
    {"telegram", "slack", "discord", "signal", "imessage", "line",
     "whatsapp", "gewe-openclaw", "web", "webchat"}

\* the ways a call of sendToTarget ends: it returns early on a blank channel
\* or text, warns on a channel it has no case for, and otherwise calls the
\* channel's send function, which returns or throws; it never throws itself
\* (the channels of the model are in lower case)
sendToTarget(target, text) ==
    IF Trim(target.channel) = "" \/ Trim(text) = "" THEN {"skipped"}
    ELSE IF Trim(target.channel) \notin SupportedChannels THEN {"unsupported"}
    ELSE {"sent", "threw"}

\* the body notifyStable builds: preamble, details and output
Body == "body"
\* what a payload handed to deliver holds as text
ReplyTexts == {Undef, Some("s"), Some(" ")}
\* the notify settings of the subscription at the time of the event: no
\* target, one, or three of which the last is on a channel without a case
DeliverNotifies ==
    {[mode |-> Some(m), targets |-> l] :
        m \in {"targets", "targets+last"},
        l \in {<<>>, <<TargetA>>,
               <<TargetA, TargetB, Target("tui", "t", Undef, Undef, Undef)>>}}

\* one call of sendToTarget, as sent records it
SendRecord(to, text, phase, outcome) ==
    [to |-> to, text |-> text, phase |-> phase, outcome |-> outcome]

\* pollWatch awaits notifyStable, which awaits resolveNotifyTargets
NotifyStableCall(e, notify, cfgNotify) ==
    /\ ticks[e].notifying > 0
    /\ ResolveCall(notify, cfgNotify)

\* the end of the poll tick: notifyStable returned or threw, the finally of
\* pollWatch ran, and the catch of the timer callback recorded the error
pollWatchEnd(e, error, targets) ==
    /\ ticks[e].notifying > 0
    /\ LET H == pollWatchNotified(Heap, e)
       IN  SetHeap(IF error = Undef THEN H
                   ELSE [H EXCEPT !.rt[H.ent[e].runtime].lastError = error],
                   op)
    /\ notifyCall' =
           [NoCall EXCEPT !.outcomes = Append(notifyCall.outcomes, targets)]
    /\ UNCHANGED <<calc, sessionStore, lim, config, active, loaded, stateMtimeMs,
                   stateSyncPromise, passes, stateSyncTimer, disk, writes,
                   startPc, op>>

\* no target was resolved: notifyStable warns and returns
NotifyNoTargets(e) ==
    /\ notifyCall.pc = "done"
    /\ notifyCall.result = <<>>
    /\ pollWatchEnd(e, Undef, 0)

\* resolveStorePath threw in readSessionStore: notifyStable rejects
NotifyThrow(e) ==
    /\ notifyCall.pc = "last"
    /\ pollWatchEnd(e, Some("error"), 0)

\* targets were resolved: the body is built and the dispatcher is called
DispatchCall ==
    /\ notifyCall.pc = "done"
    /\ notifyCall.result # <<>>
    /\ notifyCall' = [notifyCall EXCEPT !.pc = "dispatch"]
    /\ UNCHANGED <<calc, sessionStore, lim, config, active, loaded, stateMtimeMs,
                   stateSyncPromise, passes, stateSyncTimer, entries, ent, rt,
                   ticks, disk, writes, startPc, op, hist>>

\* the dispatcher calls deliver: a payload that is not final or has no text
\* is ignored, a final text is sent to the primary target
Deliver(kind, text, outcome) ==
    /\ notifyCall.pc = "dispatch"
    /\ notifyCall.delivers < MaxDelivers
    /\ LET ignored == kind # "final" \/ text = Undef \/ text = Some("")
       IN  /\ ignored => outcome = "skipped"
           /\ ~ignored => outcome \in sendToTarget(notifyCall.result[1], Get(text))
           /\ notifyCall' =
                  IF ignored
                  THEN [notifyCall EXCEPT !.delivers = @ + 1]
                  ELSE [notifyCall EXCEPT
                           !.delivers = @ + 1,
                           !.sent = Append(@, SendRecord(1, Get(text),
                                               "primary-dispatch", outcome)),
                           !.dispatchedPrimary = TRUE]
    /\ UNCHANGED <<calc, sessionStore, lim, config, active, loaded, stateMtimeMs,
                   stateSyncPromise, passes, stateSyncTimer, entries, ent, rt,
                   ticks, disk, writes, startPc, op, hist>>

\* a notifyStable without the fallback to the raw body
neverFallback(call) == FALSE

\* whether the body goes to the primary target once the dispatch is over
needsFallback(call) == ~call.dispatchedPrimary

\* the dispatcher returned or threw: the fallback to the raw body
DispatchEnd(outcome) ==
    /\ notifyCall.pc = "dispatch"
    /\ outcome \in sendToTarget(notifyCall.result[1], Body)
    /\ notifyCall' =
           [notifyCall EXCEPT
               !.pc = "mirror", !.next = 2,
               !.sent = IF needsFallback(notifyCall)
                        THEN Append(@, SendRecord(1, Body, "primary-fallback",
                                                  outcome))
                        ELSE @]
    /\ UNCHANGED <<calc, sessionStore, lim, config, active, loaded, stateMtimeMs,
                   stateSyncPromise, passes, stateSyncTimer, entries, ent, rt,
                   ticks, disk, writes, startPc, op, hist>>

\* a mirror loop that a send which threw ends
stopOnFailure(call, outcome) ==
    IF outcome = "threw" THEN Len(call.result) + 1 ELSE call.next + 1

\* the target the loop over targets.slice(1) goes to after a send
nextMirror(call, outcome) == call.next + 1

\* the loop over targets.slice(1): the body goes to the next target
Mirror(outcome) ==
    /\ notifyCall.pc = "mirror"
    /\ notifyCall.next <= Len(notifyCall.result)
    /\ outcome \in sendToTarget(notifyCall.result[notifyCall.next], Body)
    /\ notifyCall' =
           [notifyCall EXCEPT
               !.next = nextMirror(notifyCall, outcome),
               !.sent = Append(@, SendRecord(notifyCall.next, Body, "mirror",
                                             outcome))]
    /\ UNCHANGED <<calc, sessionStore, lim, config, active, loaded, stateMtimeMs,
                   stateSyncPromise, passes, stateSyncTimer, entries, ent, rt,
                   ticks, disk, writes, startPc, op, hist>>

\* the loop is over: notifyStable returns
NotifyReturn(e) ==
    /\ notifyCall.pc = "mirror"
    /\ notifyCall.next > Len(notifyCall.result)
    /\ pollWatchEnd(e, Undef, Len(notifyCall.result))

DeliverOutputs == {"x", "y"}

InitDeliver ==
    InitWith({Config(TRUE, Undef)}, {DocOk({SubA1})},
             [entries |-> DeliverMaxEntries, writes |-> 0,
              ticks |-> DeliverMaxTicks, events |-> DeliverMaxEvents, arms |-> 0])

NextDeliver ==
    \/ StartCall
    \/ StartLoadState
    \/ StartMtime
    \/ StartFinish
    \/ SyncTimerFire
    \/ \E e \in EntryIds : TickFire(e)
    \/ \E i \in 1..Len(passes) : SyncStat(i)
    \/ \E e \in EntryIds : \E result \in Results(DeliverOutputs) :
          CaptureDone(e, result)
    \/ \E e \in EntryIds : \E n \in DeliverNotifies :
          NotifyStableCall(e, n, [mode |-> "targets", targets |-> <<>>])
    \/ ResolveLast
    \/ \E e \in EntryIds : NotifyNoTargets(e)
    \/ \E e \in EntryIds : NotifyThrow(e)
    \/ DispatchCall
    \/ \E kind \in {"block", "final"} : \E text \in ReplyTexts :
          \E outcome \in {"skipped", "unsupported", "sent", "threw"} :
              Deliver(kind, text, outcome)
    \/ \E outcome \in {"skipped", "unsupported", "sent", "threw"} :
          DispatchEnd(outcome)
    \/ \E outcome \in {"skipped", "unsupported", "sent", "threw"} :
          Mirror(outcome)
    \/ \E e \in EntryIds : NotifyReturn(e)

SpecDeliver == InitDeliver /\ [][NextDeliver]_vars

(***************************************************************************)
(* The pure functions, called on their own: resolveIntervalMs and          *)
(* resolveStableCount of manager.ts, truncateOutput of text-utils.ts.  A   *)
(* text is the sequence of its characters.                                 *)
(***************************************************************************)
\* SpecPure: length of the texts handed to truncateOutput
MaxTextLen == 4
\* SpecPure: largest small maxChars handed to truncateOutput
MaxChars == 3

\* String.prototype.slice(start): a negative start counts from the end
SliceFrom(text, start) ==
    LET from == IF start < 0 THEN Max(Len(text) + start, 0)
                ELSE IF start > Len(text) THEN Len(text) ELSE start
    IN  SubSeq(text, from + 1, Len(text))

\* an indexOf that finds nothing
indexOfNothing(text, ch) == -1

\* String.prototype.indexOf(ch): the first index, from 0, or -1
IndexOf(text, ch) ==
    IF \E k \in 1..Len(text) : text[k] = ch
    THEN (CHOOSE k \in 1..Len(text) :
              text[k] = ch /\ \A j \in 1..(k - 1) : text[j] # ch) - 1
    ELSE -1

\* String.prototype.trimStart (white space of the model: blank, line feed)
RECURSIVE TrimStart(_)
TrimStart(text) ==
    IF text # <<>> /\ text[1] \in {" ", "\n"} THEN TrimStart(Tail(text))
    ELSE text

\* "...[truncated]\n"
TruncatedMarker ==
    <<".", ".", ".", "[", "t", "r", "u", "n", "c", "a", "t", "e", "d", "]",
      "\n">>

truncateOutput(text, maxChars) ==
    IF text = <<>> THEN [text |-> <<>>, truncated |-> FALSE]
    ELSE IF Len(text) <= maxChars THEN [text |-> text, truncated |-> FALSE]
    ELSE LET tail == SliceFrom(text, -maxChars)
             firstNewline == IndexOf(tail, "\n")
             cut == IF firstNewline > 0 /\ firstNewline < Len(tail) - 1
                    THEN SliceFrom(tail, firstNewline + 1)
                    ELSE tail
         IN  [text |-> TruncatedMarker \o TrimStart(cut), truncated |-> TRUE]

\* inputs.  Numbers below zero, zero, fractions that Math.trunc cuts, whole
\* numbers.  Texts of letters, blanks and line feeds: the short ones, the
\* short ones before and after a run of letters about as long as the
\* marker, and one of 201 letters; maxChars from -1 up, about the length of
\* the marker, and 200, the least resolveTmuxWatchConfig lets through
IntervalSeconds ==
    {Undef, Some(-Scale), Some(0), Some(Scale \div 4000),
     Some(Scale \div 2 + 5), Some(3 * Scale)}
IntervalMillis ==
    {Undef, Some(-Scale), Some(0), Some(199 * Scale + Scale \div 2),
     Some(500 * Scale + Scale \div 2), Some(9000 * Scale)}
StableCounts ==
    {Undef, Some(-2 * Scale), Some(0), Some(Scale \div 2),
     Some(2 * Scale + Scale \div 2), Some(5 * Scale)}
StableSeconds ==
    {Undef, Some(-Scale), Some(0), Some(Scale \div 10), Some(15 * Scale),
     Some(50 * Scale + Scale \div 2)}
\* a subscription and a configuration with these numbers
PureSub(seconds, millis, count, stable) ==
    [id |-> "a", target |-> "t", enabled |-> Undef, stableCount |-> count,
     stableSeconds |-> stable, captureIntervalSeconds |-> seconds,
     intervalMs |-> millis]
PureConfig(seconds, millis, count, stable) ==
    [enabled |-> TRUE, stableCount |-> count, stableSeconds |-> stable,
     captureIntervalSeconds |-> seconds, pollIntervalMs |-> millis]
Texts ==
    LET short == UNION {[1..n -> {"a", " ", "\n"}] : n \in 0..MaxTextLen}
        runs == {[k \in 1..n |-> "a"] :
                    n \in (Len(TruncatedMarker) - MaxChars)..Len(TruncatedMarker)}
    IN  short \cup {r \o t : r \in runs, t \in short}
              \cup {t \o r : r \in runs, t \in short}
              \cup {[k \in 1..201 |-> "a"]}
TextMaxChars ==
    (-1..MaxChars)
        \cup (Len(TruncatedMarker)..(Len(TruncatedMarker) + MaxChars))
        \cup {200}

\* a call of a pure function: calc records it with its result.  A
\* behaviour of SpecPure is one call on inputs of the sets above, and for
\* truncateOutput the calls on its own results that follow
Call(fn, args, out) ==
    /\ calc' = [fn |-> fn, args |-> args, out |-> out]
    /\ UNCHANGED <<notifyVars, lim, config, active, loaded, stateMtimeMs,
                   stateSyncPromise, passes, stateSyncTimer, entries, ent, rt,
                   ticks, disk, writes, startPc, op, hist>>

ResolveIntervalCall(subscription, cfg) ==
    /\ calc = NoCalc
    /\ Call("resolveIntervalMs", <<subscription, cfg>>,
            resolveIntervalMs(subscription, cfg))

ResolveStableCall(subscription, cfg) ==
    /\ calc = NoCalc
    /\ Call("resolveStableCount", <<subscription, cfg>>,
            resolveStableCount(subscription, cfg))

TruncateCall(text, maxChars) ==
    /\ calc = NoCalc
    /\ Call("truncateOutput", <<text, maxChars>>,
            truncateOutput(text, maxChars))

\* the text a call of truncateOutput returned is truncated again, with the
\* same maxChars
TruncateAgain ==
    /\ calc.fn = "truncateOutput"
    /\ Call("truncateOutput", <<calc.out.text, calc.args[2]>>,
            truncateOutput(calc.out.text, calc.args[2]))

InitPure ==
    InitWith(SyncConfigs, {DocMissing},
             [entries |-> 0, writes |-> 0, ticks |-> 0, events |-> 0, arms |-> 0])

NextPure ==
    \/ \E s1, s2 \in IntervalSeconds : \E m1, m2 \in IntervalMillis :
          ResolveIntervalCall(PureSub(s1, m1, Undef, Undef),
                              PureConfig(s2, m2, Undef, Undef))
    \/ \E s1 \in {Undef, Some(3 * Scale)} :
          \E s2 \in {Undef, Some(Scale \div 2 + 5)} :
             \E c1, c2 \in StableCounts : \E d1, d2 \in StableSeconds :
                ResolveStableCall(PureSub(s1, Undef, c1, d1),
                                  PureConfig(s2, Undef, c2, d2))
    \/ \E text \in Texts : \E maxChars \in TextMaxChars :
          TruncateCall(text, maxChars)
    \/ TruncateAgain

SpecPure == InitPure /\ [][NextPure]_vars

(***************************************************************************)
(* SpecRearm: reconciliation passes of a running scheduler, with the       *)
(* setInterval calls of every runtime counted                              *)
(***************************************************************************)
\* SpecRearm: entry objects ever allocated
RearmMaxEntries == 3
\* SpecRearm: writes of the durable record
RearmMaxWrites == 2
\* SpecRearm: counted setInterval calls of one runtime
RearmMaxArms == 3

RearmInitialDocs == {DocOk({SubA})}
RearmDocs ==
    {DocOk({SubA}), DocOk({SubA, SubB}), DocOk({SubA1}), DocOk({SubB}),
     DocOtherVersion({SubA}), DocMissing, DocCorrupt}

InitRearm ==
    InitWith(SyncConfigs, RearmInitialDocs,
             [entries |-> RearmMaxEntries, writes |-> RearmMaxWrites,
              ticks |-> 0, events |-> 0, arms |-> RearmMaxArms])

NextRearm ==
    \/ StartCall
    \/ StartLoadState
    \/ StartMtime
    \/ StartFinish
    \/ \E d \in RearmDocs : ExternalWrite(d)
    \/ SyncTimerFire
    \/ \E i \in 1..Len(passes) : SyncStat(i)
    \/ \E i \in 1..Len(passes) : SyncLoad(i)

SpecRearm == InitRearm /\ [][NextRearm]_vars

(***************************************************************************)
(* SpecSave: upserts and removals whose saveState may fail                 *)
(***************************************************************************)
\* SpecSave: entry objects ever allocated
SaveMaxEntries == 4
\* SpecSave: writes of the durable record
SaveMaxWrites == 3

SaveInitialDocs == {DocMissing, DocOk({SubA})}
SaveAddInputs == {SubA1, SubB}
SaveRemoveInputs == {"a"}

InitSave ==
    InitWith(SyncConfigs, SaveInitialDocs,
             [entries |-> SaveMaxEntries, writes |-> SaveMaxWrites,
              ticks |-> 0, events |-> 0, arms |-> 0])

NextSave ==
    \/ StartCall
    \/ StartLoadState
    \/ StartMtime
    \/ StartFinish
    \/ SyncTimerFire
    \/ \E i \in 1..Len(passes) : SyncStat(i)
    \/ \E i \in 1..Len(passes) : SyncLoad(i)
    \/ \E input \in SaveAddInputs : AddCall(input)
    \/ \E id \in SaveRemoveInputs : RemoveCall(id)
    \/ OpLoadState
    \/ OpMtime
    \/ SaveMkdir
    \/ SaveWrite
    \/ SaveStat
    \/ SaveFail

SpecSave == InitSave /\ [][NextSave]_vars

(***************************************************************************)
(* Properties                                                              *)
(***************************************************************************)
\* the entry objects in use
Entries == {e \in EntryIds : ent[e].runtime # 0}
\* the resolved stable-count threshold of an entry's subscription
Threshold(e) == resolveStableTicks(ent[e].subscription, config)

\* C1: between two content changes a runtime emits at most one stable
\* event, however many identical captures follow and also across failed
\* captures; and while notifyStable is awaited lastNotifiedHash is already
\* the current hash.
C1_AtMostOneEventPerRun ==
    \A e \in Entries :
        /\ hist[RtOf(e)].ev <= 1
        /\ ticks[e].notifying > 0 =>
              /\ rt[RtOf(e)].lastHash # Undef
              /\ rt[RtOf(e)].lastNotifiedHash = rt[RtOf(e)].lastHash

\* C1, reached: the stable event of a run was emitted, its notification
\* has returned, and two more identical captures were handled since.
C1_Witness ==
    \E e \in Entries :
        /\ hist[RtOf(e)].ev = 1
        /\ rt[RtOf(e)].stableTicks >= Threshold(e) + 2
        /\ ticks[e].notifying = 0

\* C2: for a subscription with no capture before, once N identical
\* successful polls in a row are handled (N the resolved threshold) exactly
\* one stable event has been emitted, and further identical polls add none.
C2_OneEventAfterNPolls ==
    \A e \in Entries :
        hist[RtOf(e)].pristine /\ hist[RtOf(e)].run >= Threshold(e) =>
            Len(hist[RtOf(e)].log) = 1

\* C3: a capture that changes lastHash sets stableTicks to 0 and clears
\* lastNotifiedHash; and whenever the content has stayed identical for the
\* threshold, the stable event of this content has been emitted (its hash is
\* the last one logged), also when an earlier event had the same hash.
C3_ChangeRearms ==
    /\ [][\A e \in Entries :
            rt'[RtOf(e)].lastHash # rt[RtOf(e)].lastHash =>
                /\ rt'[RtOf(e)].stableTicks = 0
                /\ rt'[RtOf(e)].lastNotifiedHash = Undef]_vars
    /\ [](\A e \in Entries :
            rt[RtOf(e)].stableTicks >= Threshold(e) =>
                /\ hist[RtOf(e)].ev = 1
                /\ rt[RtOf(e)].lastNotifiedHash = rt[RtOf(e)].lastHash
                /\ hist[RtOf(e)].log[Len(hist[RtOf(e)].log)].hash =
                      Get(rt[RtOf(e)].lastHash))

\* C3, reached: two stable events with the same hash, the content having
\* changed in between.
C3_Witness ==
    \E e \in Entries :
        /\ Len(hist[RtOf(e)].log) = 2
        /\ hist[RtOf(e)].log[1].hash = hist[RtOf(e)].log[2].hash

\* C4: a failed capture sets stableTicks to 0 and leaves lastHash as it
\* was; a stable event emitted after a failure (no content change since) is
\* emitted by the capture that completes a run of exactly N identical
\* successful captures since the failure, and such a run always has its event.
C4_FailureRestartsRun ==
    /\ [][\A e \in Entries :
            CaptureDone(e, Undef) =>
                /\ rt'[RtOf(e)].stableTicks = 0
                /\ rt'[RtOf(e)].lastHash = rt[RtOf(e)].lastHash]_vars
    /\ [](\A e \in Entries :
            /\ \A k \in 1..Len(hist[RtOf(e)].log) :
                  hist[RtOf(e)].log[k].failed =>
                      hist[RtOf(e)].log[k].run = Threshold(e)
            /\ hist[RtOf(e)].failed /\ hist[RtOf(e)].run >= Threshold(e) =>
                  hist[RtOf(e)].ev = 1)

\* C4, reached: with a threshold of 2 or more, a capture failed in the
\* middle of a run and the stable event was emitted after it.
C4_Witness ==
    \E e \in Entries :
        /\ Threshold(e) >= 2
        /\ \E k \in 1..Len(hist[RtOf(e)].log) : hist[RtOf(e)].log[k].failed

\* the polls of an entry's callbacks that are in flight (captureOutput or
\* notifyStable awaited)
InFlight(e) == ticks[e].capturing + ticks[e].notifying

\* C5: at most one poll is in flight per subscription: over all the entry
\* objects of one subscription id, at most one poll awaits its capture or
\* its notification.
C5_OnePollInFlight ==
    \A id \in Ids :
        /\ \A e \in Entries : ent[e].subscription.id = id => InFlight(e) <= 1
        /\ Cardinality({e \in Entries : /\ ent[e].subscription.id = id
                                        /\ InFlight(e) > 0}) <= 1

\* no call of start, addSubscription or removeSubscription, no
\* reconciliation pass and no timer callback is between two of its steps
Quiescent ==
    /\ startPc = "idle"
    /\ op.kind = "none"
    /\ passes = <<>>
    /\ \A e \in EntryIds : ticks[e] = NoTicks

\* the runtimes whose armed timer polls subscription id
ArmedFor(id) ==
    {r \in RtIds : rt[r].timer # 0 /\ ent[rt[r].timer].subscription.id = id}

\* C6: while the manager is active and nothing is mid-step, a managed
\* enabled subscription has exactly one armed capture timer and a managed
\* disabled subscription has none.
C6_OneTimerPerEnabled ==
    active /\ Quiescent =>
        \A id \in Ids :
            entries[id] # 0 =>
                Cardinality(ArmedFor(id)) =
                    IF ent[entries[id]].subscription.enabled # Some(FALSE)
                    THEN 1 ELSE 0

\* C7: whenever the manager is not active, neither the state sync timer nor
\* any capture timer is armed.
C7_NoTimerWhenInactive ==
    ~active => /\ ~stateSyncTimer
               /\ \A r \in RtIds : rt[r].timer = 0

\* the fields of a runtime the detector works on
Stability(runtime) ==
    <<runtime.stableTicks, runtime.lastHash, runtime.lastOutput,
      runtime.lastNotifiedHash>>

\* C8: a capture in flight whose entry is no longer watchable (disabled,
\* not in the managed set, or the manager stopped) is discarded however it
\* completes: no stable event, no call of notifyStable, and the runtime's
\* stability fields stay as they are.
C8_StaleCaptureDiscarded ==
    \A e \in Entries :
        ticks[e].capturing > 0 /\ ~shouldWatchEntry(Heap, active, e) =>
            \A result \in Results(SpecOutputs) :
                LET H == pollWatchCaptured(Heap, active, config, e, result)
                IN  /\ H.hist[RtOf(e)].log = hist[RtOf(e)].log
                    /\ H.ticks[e].notifying = ticks[e].notifying
                    /\ Stability(H.rt[RtOf(e)]) = Stability(rt[RtOf(e)])

\* C9: at most one reconciliation pass is in flight, and it is the one
\* stateSyncPromise stands for; the callbacks that found it pending wait.
C9_OnePassInFlight ==
    /\ Len(passes) <= 1
    /\ (stateSyncPromise = "pending") = (Len(passes) = 1)
    /\ passes = <<>> => \A e \in EntryIds : ~ticks[e].waiting

\* C9, reached: two timer callbacks wait for the one pass in flight.
C9_Witness ==
    /\ Len(passes) = 1
    /\ Cardinality({e \in EntryIds : ticks[e].waiting}) = 2

\* the subscriptions of the managed set
Managed == {ent[entries[id]].subscription : id \in {x \in Ids : entries[x] # 0}}

\* C10: the step of a pass that applies a loaded state S leaves the managed
\* set equal to the records of S with an id and a target; an entry it drops
\* has its timer cleared and its runtime is the runtime of no managed entry
\* any more; an entry it adds is a new object with a new runtime whose
\* fields are those of createRuntime (but for the timer just armed).
C10_ReconcileAppliesState ==
    [][\A i \in 1..Len(passes) :
        SyncLoad(i) /\ loadStateForSync(disk) # Undef =>
            /\ Managed' = ValidSubs(Get(loadStateForSync(disk)))
            /\ \A id \in Ids :
                /\ entries[id] # 0 /\ entries'[id] = 0 =>
                      /\ rt'[RtOf(entries[id])].timer = 0
                      /\ \A x \in Ids :
                            entries'[x] # 0 =>
                                ent'[entries'[x]].runtime # RtOf(entries[id])
                /\ entries[id] = 0 /\ entries'[id] # 0 =>
                      /\ entries'[id] > Len(ent)
                      /\ ent'[entries'[id]].runtime > Len(rt)
                      /\ [rt'[ent'[entries'[id]].runtime] EXCEPT !.timer = 0]
                            = createRuntime]_vars

\* C10, reached: a subscription was dropped by a pass while its capture was
\* in flight and a later pass added its id again; the managed entry has
\* another runtime than the one the capture in flight works on.
C10_Witness ==
    \E e \in Entries :
        LET id == ent[e].subscription.id
        IN  /\ ticks[e].capturing > 0
            /\ rt[RtOf(e)].lastHash # Undef
            /\ entries[id] # 0
            /\ entries[id] # e
            /\ RtOf(entries[id]) # RtOf(e)
            /\ rt[RtOf(entries[id])].timer = entries[id]
            /\ rt[RtOf(entries[id])].lastHash = Undef
            /\ passes = <<>>
            /\ writes = 2

\* C11: an active manager whose durable record is no longer written ends up
\* with the managed set equal to the valid subscriptions of the record, by
\* the state sync timer's passes alone.
C11_EventuallyReconciled ==
    <>[](active /\ startPc = "idle" =>
            Managed = ValidSubs(Get(loadStateForSync(disk))))

\* C12: once the state is loaded, the recorded modification time differs
\* from the durable record's whenever the record holds content of another
\* writer that this process has neither read nor written, so that the
\* change probe (mtimeMs === this.stateMtimeMs) reports the change.
C12_ProbeSeesExternalWrite ==
    loaded /\ ~disk.seen => stateMtimeMs # readStateMtimeMs(disk)

\* C13: the snapshot a call of addSubscription or removeSubscription writes
\* contains every subscription (a record with an id and a target) that the
\* durable record holds when it is written, but the one of the call's id: a
\* subscription with another id that another writer has stored is kept.
C13_ReadMergeWrite ==
    [][op.pc = "write" /\ op'.pc = "stat" =>
          \A s \in ValidSubs(loadState(disk)) :
              s.id # op.id => s \in disk'.doc.subs]_vars

\* the optional fields of a subscription an upsert may leave out
MergeFields ==
    {"enabled", "stableCount", "stableSeconds", "captureIntervalSeconds",
     "intervalMs"}

\* C14: addSubscription for an id that is managed keeps the previous value
\* of every field its input does not give.
C14_UpsertKeepsOmittedFields ==
    [][op'.kind = "add" /\ op'.pc = "mkdir" /\ op.pc # "mkdir"
       /\ op'.existing # 0 =>
          \A k \in MergeFields :
              op'.input[k] = Undef =>
                  op'.subscription[k] = ent[op'.existing].subscription[k]]_vars

\* the call in flight is about to return a value from saveState's last
\* await: addSubscription returns unless startWatch(this.entries.get(id)!)
\* throws, removeSubscription returns true
Returns ==
    /\ op.pc = "stat"
    /\ op.kind = "add" =>
          ~(active /\ op.subscription.enabled # Some(FALSE) /\ entries[op.id] = 0)

\* C15: when addSubscription returns its record the durable record holds
\* that record, and when removeSubscription returns true the durable record
\* holds no record of that id, unless another writer has written the
\* durable record since the call began.
C15_PersistedBeforeReturn ==
    [][Returns /\ op'.kind = "none" /\ ~op.extern =>
          /\ op.kind = "add" => op.subscription \in loadState(disk')
          /\ op.kind = "remove" =>
                 \A s \in loadState(disk') : s.id # op.id]_vars

\* a durable record that is missing, does not parse, has another version
\* or has no array of subscriptions
Rejected(doc) == doc.kind # "json" \/ doc.version # STATE_VERSION

\* C16: for a durable record that is missing, unparseable, of another
\* version or without an array of subscriptions, loadState returns the
\* state without subscriptions.
C16_LoadNeverFails == Rejected(disk.doc) => loadState(disk) = {}

\* ensureLoaded has gone on past its loadState of a record of another
\* version that holds a subscription, and has set no entry
C16_Witness ==
    /\ startPc = "mtime"
    /\ disk.seen
    /\ disk.doc = DocOtherVersion({SubA})
    /\ entries = [id \in Ids |-> 0]

\* C17: every subscription of the managed set, and of every snapshot
\* saveState writes, has a non-empty id and a non-empty target.
C17_IdAndTargetRequired ==
    /\ \A s \in Managed : s.id # "" /\ s.target # ""
    /\ op.pc \in {"write", "stat"} =>
          \A s \in op.payload : s.id # "" /\ s.target # ""

\* the tuple (channel, address, accountId, threadId) of a target, an absent
\* accountId or threadId read as the empty string
Destination(t) ==
    <<t.channel, t.target, OrEmpty(t.accountId), OrEmpty(t.threadId)>>

\* the k-th smallest element of a set of numbers
Nth(S, k) == CHOOSE x \in S : Cardinality({y \in S : y <= x}) = k

ExternalRecords(store) ==
    {i \in 1..Len(store) :
        /\ extractTargetSnapshot(store[i].entry) # Undef
        /\ Get(extractTargetSnapshot(store[i].entry)).channel
               \notin INTERNAL_LAST_CHANNELS}

\* the last-known destination of the session is on an internal channel
InternalLast(store) ==
    \E i \in 1..Len(store) :
        /\ store[i].key = SessionKey
        /\ extractTargetSnapshot(store[i].entry) # Undef
        /\ Get(extractTargetSnapshot(store[i].entry)).channel
               \in INTERNAL_LAST_CHANNELS

\* the call has read a session store
HasReadStore ==
    /\ notifyCall.pc = "done"
    /\ notifyCall.mode \in {"last", "targets+last"}
    /\ notifyCall.store # Undef

\* C19: with the session's last-known destination on an internal channel
\* and no destination on an external channel in the session store, the
\* last-known targets are that internal destination alone, tagged "last".
C19_InternalKeptWithoutExternal ==
    HasReadStore /\ InternalLast(Get(notifyCall.store))
    /\ ExternalRecords(Get(notifyCall.store)) = {} =>
        LET store == Get(notifyCall.store)
            i == CHOOSE x \in 1..Len(store) : store[x].key = SessionKey
            primary == Get(extractTargetSnapshot(store[i].entry))
        IN  /\ Len(notifyCall.last) = 1
            /\ notifyCall.last[1].source = "last"
            /\ notifyCall.last[1].channel = primary.channel
            /\ notifyCall.last[1].target = primary.target
            /\ notifyCall.last[1].accountId = primary.accountId

\* the store read holds the session's internal destination and another
\* record, on an internal channel too
C19_Witness ==
    /\ HasReadStore /\ InternalLast(Get(notifyCall.store))
    /\ ExternalRecords(Get(notifyCall.store)) = {}
    /\ Len(Get(notifyCall.store)) = 2
    /\ notifyCall.last[1].channel = "webchat"
    /\ notifyCall.result # <<>>

\* C20: with the session's last-known destination on an internal channel
\* and a destination on an external channel in the session store, the
\* last-known targets are one target, tagged "last-fallback": the
\* destination of a record whose update time no record with an external
\* destination exceeds.
C20_LatestExternalFallback ==
    HasReadStore /\ InternalLast(Get(notifyCall.store))
    /\ ExternalRecords(Get(notifyCall.store)) # {} =>
        LET store == Get(notifyCall.store)
        IN  /\ Len(notifyCall.last) = 1
            /\ notifyCall.last[1].source = "last-fallback"
            /\ \E i \in ExternalRecords(store) :
                  LET s == Get(extractTargetSnapshot(store[i].entry))
                  IN  /\ notifyCall.last[1].channel = s.channel
                      /\ notifyCall.last[1].target = s.target
                      /\ notifyCall.last[1].accountId = s.accountId
                      /\ \A j \in ExternalRecords(store) :
                             UpdatedAt(store[j].entry) <= UpdatedAt(store[i].entry)

\* the store read holds two external destinations, the later one second,
\* and the later one is the target
C20_Witness ==
    /\ HasReadStore /\ InternalLast(Get(notifyCall.store))
    /\ Cardinality(ExternalRecords(Get(notifyCall.store))) = 2
    /\ notifyCall.last = <<Resolved(TargetB, Some("7"), Undef, "last-fallback")>>
    /\ UpdatedAt(Get(notifyCall.store)[1].entry) = 1


\* C21: a call of notifyStable that resolves no target makes no call of
\* sendToTarget (the dispatch and the mirror loop are reached only with a
\* target); the episode is not retried: a runtime has at most one call of
\* notifyStable between two content changes, so after an abandoned one
\* nothing is in flight and lastNotifiedHash still is the current hash; and
\* detection goes on: whenever the content has stayed identical for the
\* threshold, the stable event of this content has been raised.
C21_NoTargetsAbandoned ==
    /\ notifyCall.sent # <<>> \/ notifyCall.pc \in {"dispatch", "mirror"} =>
          notifyCall.result # <<>>
    /\ \A e \in Entries :
          LET h == hist[RtOf(e)]
              o == notifyCall.outcomes
          IN  /\ Len(o) <= Len(h.log)
              /\ h.ev <= 1
              /\ h.ev = 1 /\ Len(o) = Len(h.log) /\ o[Len(o)] = 0 =>
                    /\ notifyCall.pc = "idle"
                    /\ ticks[e].notifying = 0
                    /\ rt[RtOf(e)].lastNotifiedHash = rt[RtOf(e)].lastHash
              /\ rt[RtOf(e)].stableTicks >= Threshold(e) => h.ev = 1

\* C21, reached: a first stable event resolved no target and was abandoned;
\* the content changed and stabilised again, and the second stable event
\* went through the delivery to its targets.
C21_Witness ==
    \E e \in Entries :
        /\ Len(hist[RtOf(e)].log) = 2
        /\ notifyCall.outcomes = <<0, 1>>
        /\ notifyCall.pc = "idle"


\* the calls of sendToTarget of the current stable event that went to the
\* i-th resolved target
SentTo(i) == {k \in 1..Len(notifyCall.sent) : notifyCall.sent[k].to = i}

\* C22: within one stable event a call of sendToTarget is made only once
\* resolveNotifyTargets has returned (its result is no longer touched), and
\* every call for a secondary target comes after a call for the primary
\* target: the mirror loop begins only after the primary was sent the final
\* text or the raw body.
C22_ResolveThenPrimaryThenMirrors ==
    /\ [](notifyCall.sent # <<>> =>
             /\ notifyCall.pc \in {"dispatch", "mirror"}
             /\ notifyCall.result # <<>>)
    /\ [][notifyCall'.sent # notifyCall.sent /\ notifyCall'.sent # <<>> =>
             /\ notifyCall.pc \in {"dispatch", "mirror"}
             /\ notifyCall'.result = notifyCall.result]_vars
    /\ [](\A k \in 1..Len(notifyCall.sent) :
             notifyCall.sent[k].to > 1 =>
                 \E j \in 1..(k - 1) : notifyCall.sent[j].to = 1)
    /\ [](notifyCall.pc = "mirror" => SentTo(1) # {})

\* C22, reached: three targets were resolved, the dispatcher produced a
\* final text that went to the primary, and the mirror loop has sent the
\* body to both secondaries.
C22_Witness ==
    /\ notifyCall.pc = "mirror"
    /\ Len(notifyCall.result) = 3
    /\ Len(notifyCall.sent) = 3
    /\ notifyCall.sent[1].phase = "primary-dispatch"
    /\ notifyCall.sent[3].to = 3

C24_EachSecondaryOnce ==
    notifyCall.pc = "mirror" =>
        /\ notifyCall.next \in 2..(Len(notifyCall.result) + 1)
        /\ \A i \in 2..Len(notifyCall.result) :
              /\ Cardinality(SentTo(i)) = IF i < notifyCall.next THEN 1 ELSE 0
              /\ \A k \in SentTo(i) :
                    /\ notifyCall.sent[k].text = Body
                    /\ notifyCall.sent[k].phase = "mirror"

\* C24, reached: the sends to the primary and to the first secondary threw,
\* and the last secondary has had its call.
C24_Witness ==
    /\ notifyCall.pc = "mirror"
    /\ Len(notifyCall.result) = 3
    /\ notifyCall.next = 4
    /\ \A k \in SentTo(1) \cup SentTo(2) : notifyCall.sent[k].outcome = "threw"
    /\ SentTo(3) # {}


\* heap H is what a poll tick of entry e leaves: the in-flight marker of
\* its runtime is cleared, and if the subscription is managed and enabled in
\* an active manager and the timer of its managed entry was armed, that
\* timer still is (with no call of start, addSubscription or
\* removeSubscription under way that could arm it anew)
TickEnded(H, e) ==
    LET managed == entries[ent[e].subscription.id]
    IN  /\ ~H.rt[RtOf(e)].running
        /\ /\ startPc = "idle"
           /\ op.kind = "none"
           /\ managed # 0
           /\ shouldWatchEntry(Heap, active, managed)
           /\ rt[RtOf(managed)].timer = managed
           => H.rt[RtOf(managed)].timer = managed

\* C25: however a poll tick ends (the capture failed, the guard after the
\* capture aborted it, the content was handled without a stable event, or
\* notifyStable returned or threw), the in-flight marker is cleared and the
\* subscription's timer stays armed.
C25_TickEndKeepsTimer ==
    \A e \in Entries :
        /\ ticks[e].capturing > 0 =>
              \A result \in Results(SpecOutputs) :
                  LET H == pollWatchCaptured(Heap, active, config, e, result)
                  IN  H.ticks[e].notifying = ticks[e].notifying =>
                          TickEnded(H, e)
        /\ ticks[e].notifying > 0 => TickEnded(pollWatchNotified(Heap, e), e)


\* C30: a capture that fails leaves lastError set on the runtime, which is
\* what listSubscriptions reports, whatever the shape of the runtime before
\* it; and a capture that succeeds on a watchable entry clears it.
C30_FailedCaptureSetsLastError ==
    \A e \in Entries :
        ticks[e].capturing > 0 =>
            /\ pollWatchCaptured(Heap, active, config, e, Undef)
                   .rt[RtOf(e)].lastError # Undef
            /\ \A o \in DeliverOutputs :
                  shouldWatchEntry(Heap, active, e) =>
                      pollWatchCaptured(Heap, active, config, e, Some(o))
                          .rt[RtOf(e)].lastError = Undef


\* C26: whatever numbers the subscription and the configuration hold
\* (below zero, zero, fractions, none), resolveIntervalMs returns at least
\* 200.
C26_IntervalAtLeastFloor ==
    calc.fn = "resolveIntervalMs" => calc.out >= MIN_INTERVAL_MS

\* C26, reached: the floor was applied to a negative number of seconds, to
\* a fraction of a millisecond and to zero.
C26_Witness ==
    /\ calc.fn = "resolveIntervalMs"
    /\ calc.out = MIN_INTERVAL_MS
    /\ \/ calc.args[1].captureIntervalSeconds = Some(-Scale)
       \/ calc.args[1].captureIntervalSeconds = Some(Scale \div 4000)
       \/ /\ calc.args[1].captureIntervalSeconds = Undef
          /\ calc.args[2].captureIntervalSeconds = Undef
          /\ calc.args[1].intervalMs = Some(0)

\* the first of the optional numbers of a list that is defined, as a
\* one-element list, or the empty list
RECURSIVE FirstDefined(_)
FirstDefined(sources) ==
    IF sources = <<>> THEN <<>>
    ELSE IF sources[1] # Undef THEN <<Get(sources[1])>>
    ELSE FirstDefined(Tail(sources))

\* C27: resolveIntervalMs returns the first defined of: the subscription's
\* seconds, the subscription's milliseconds, the configuration's seconds,
\* the configuration's milliseconds (in milliseconds, truncated, at least
\* 200), and 10000 when none is defined.
C27_IntervalSourceOrder ==
    calc.fn = "resolveIntervalMs" =>
        LET subscription == calc.args[1]
            cfg == calc.args[2]
            first ==
                FirstDefined(
                    <<{v * 1000 : v \in subscription.captureIntervalSeconds},
                      subscription.intervalMs,
                      {v * 1000 : v \in cfg.captureIntervalSeconds},
                      cfg.pollIntervalMs>>)
        IN  calc.out =
                IF first = <<>> THEN DEFAULT_CAPTURE_INTERVAL_SECONDS * 1000
                ELSE Max(MIN_INTERVAL_MS, Trunc(first[1]))

\* C28: resolveStableCount returns the first defined of: the subscription's
\* count, the subscription's stable seconds over the effective interval
\* (rounded up), the configuration's count, the configuration's stable
\* seconds over the effective interval (rounded up), each at least 1, and 6
\* when none is defined; the result is at least 1.
C28_StableCountSourceOrder ==
    calc.fn = "resolveStableCount" =>
        LET subscription == calc.args[1]
            cfg == calc.args[2]
            intervalMs == resolveIntervalMs(subscription, cfg)
            Ticks(seconds) ==
                {CeilDiv(v * 1000, intervalMs * Scale) : v \in seconds}
            first ==
                FirstDefined(
                    <<{Trunc(v) : v \in subscription.stableCount},
                      Ticks(subscription.stableSeconds),
                      {Trunc(v) : v \in cfg.stableCount},
                      Ticks(cfg.stableSeconds)>>)
        IN  /\ calc.out >= 1
            /\ calc.out = IF first = <<>> THEN DEFAULT_STABLE_COUNT
                          ELSE Max(1, first[1])

\* C29: truncating the text a call of truncateOutput returned, with the
\* same maxChars, returns that text.
C29_TruncateIdempotent ==
    calc.fn = "truncateOutput" =>
        truncateOutput(calc.out.text, calc.args[2]).text = calc.out.text

\* C29, amended: the same for a maxChars of at least the length of the
\* marker "...[truncated]\n" (15); the result of a truncation is then
\* returned as it is, or truncated to itself.
C29_TruncateIdempotentFromMarker ==
    calc.fn = "truncateOutput" /\ calc.args[2] >= Len(TruncatedMarker) =>
        truncateOutput(calc.out.text, calc.args[2]).text = calc.out.text

\* C29, reached: a text was cut at a line feed, the result is longer than
\* maxChars, and truncating it again has cut it at the line feed of the
\* marker and returned it.
C29_Witness ==
    /\ calc.fn = "truncateOutput"
    /\ calc.args[2] >= Len(TruncatedMarker)
    /\ Len(calc.args[1]) > calc.args[2]
    /\ SubSeq(calc.args[1], 1, Len(TruncatedMarker)) = TruncatedMarker
    /\ calc.out.truncated
    /\ calc.out.text = calc.args[1]
    /\ Len(calc.out.text) < Len(TruncatedMarker) + calc.args[2]

\* a step in which a pass reconciles the managed set with the durable record
Reconciles ==
    \E i \in 1..Len(passes) :
        /\ passes[i].pc = "load"
        /\ loadStateForSync(disk) # Undef
        /\ passes' = RemoveAt(passes, i)
\* the durable record holds, for id, the subscription the managed set holds
SameRecord(id) ==
    /\ entries[id] # 0
    /\ LET subs == Get(loadStateForSync(disk))
       IN  /\ HasId(subs, id)
           /\ SubWithId(subs, id) = ent[entries[id]].subscription

\* C31: a reconciliation pass leaves the capture timer of a managed,
\* enabled subscription whose durable record is identical to the one in
\* memory running: no setInterval call re-arms it.
C31_UnchangedTimerNotRearmed ==
    [][Reconciles =>
          \A id \in Ids :
              (/\ active
               /\ SameRecord(id)
               /\ shouldWatchEntry(Heap, active, entries[id])
               /\ rt[RtOf(entries[id])].timer = entries[id]
               /\ hist[RtOf(entries[id])].arms < lim.arms)
              => /\ entries'[id] = entries[id]
                 /\ rt'[RtOf(entries[id])].timer = entries[id]
                 /\ hist'[RtOf(entries[id])].arms =
                        hist[RtOf(entries[id])].arms]_vars


\* the durable record is missing or has another version
MissingOrOtherVersion ==
    \/ disk.doc.kind = "missing"
    \/ disk.doc.kind = "json" /\ disk.doc.version # STATE_VERSION

\* C32: a reconciliation pass of a running scheduler that finds the durable
\* record missing or with another version treats it as an empty document:
\* after it no subscription is managed and no capture timer is armed.
C32_MissingOrMismatchedIsEmpty ==
    [][Reconciles /\ active /\ MissingOrOtherVersion =>
          /\ \A id \in Ids : entries'[id] = 0
          /\ \A r \in 1..Len(rt') : rt'[r].timer = 0]_vars
\* such a pass has emptied a managed set that held a subscription
C32_Witness ==
    /\ active /\ MissingOrOtherVersion
    /\ disk.seen /\ stateMtimeMs = readStateMtimeMs(disk)
    /\ Len(ent) > 0 /\ passes = <<>>
    /\ \A id \in Ids : entries[id] = 0


\* C33: a capture that returns the empty text is content, not a failure:
\* it is recorded as the last content, it continues a run of empty captures
\* (stableTicks grows by one where a failure would reset it), and the
\* capture that brings the run to the threshold emits the stable event.
C33_EmptyCaptureCounts ==
    /\ [][\A e \in Entries :
            CaptureDone(e, Some("")) /\ shouldWatchEntry(Heap, active, e) =>
                LET r == RtOf(e)
                    hash == hashOutput("")
                IN  /\ rt'[r].lastHash = Some(hash)
                    /\ rt'[r].lastOutput = Some("")
                    /\ rt[r].lastHash = Some(hash) =>
                          /\ rt'[r].stableTicks = rt[r].stableTicks + 1
                          /\ (/\ rt'[r].stableTicks >= Threshold(e)
                              /\ rt[r].lastNotifiedHash # Some(hash)) =>
                                /\ ticks'[e].notifying = ticks[e].notifying + 1
                                /\ Len(hist'[r].log) = Len(hist[r].log) + 1]_vars
    /\ [](\A e \in Entries :
            (/\ rt[RtOf(e)].lastOutput = Some("")
             /\ hist[RtOf(e)].pristine
             /\ hist[RtOf(e)].run > Threshold(e)) =>
                /\ Len(hist[RtOf(e)].log) = 1
                /\ hist[RtOf(e)].log[1].hash = hashOutput(""))

\* C33, reached: a run of empty captures, with a threshold of 2 or more,
\* emitted the stable event.
C33_Witness ==
    \E e \in Entries :
        /\ Threshold(e) >= 2
        /\ rt[RtOf(e)].lastOutput = Some("")
        /\ \E k \in 1..Len(hist[RtOf(e)].log) :
              /\ hist[RtOf(e)].log[k].hash = hashOutput("")
              /\ hist[RtOf(e)].log[k].run = Threshold(e) + 1


\* entry object e was replaced by an upsert of its subscription: the managed
\* entry of its id is another object with the same runtime
Replaced(e) ==
    LET managed == entries[ent[e].subscription.id]
    IN  managed # 0 /\ managed # e /\ RtOf(managed) = RtOf(e)

\* C34: an upsert of an existing enabled subscription made while a poll of
\* it is in flight, or while its tick waits on the reconciliation, does not
\* stop polling: when that poll goes on and ends after the upsert has
\* completed, the capture timer armed for the subscription stays armed.
C34_UpsertKeepsPolling ==
    [][\A e \in Entries :
          LET managed == entries[ent[e].subscription.id]
          IN  (/\ Replaced(e)
               /\ ticks'[e] # ticks[e]
               /\ op.kind = "none" /\ startPc = "idle"
               /\ shouldWatchEntry(Heap, active, managed)
               /\ rt[RtOf(managed)].timer = managed)
              => rt'[RtOf(managed)].timer = managed]_vars


\* C35: an upsert that a reconciliation pass overlapped (the pass applied,
\* after the call began, a record read before the call's write) still
\* returns its record, and when it returns the upserted subscription is in
\* the managed set and in the durable record (no other writer having
\* written since the call began).
C35_UpsertSurvivesPass ==
    [][op.kind = "add" /\ op.pc = "stat" /\ op'.kind = "none"
       /\ op.stale /\ ~op.extern =>
          /\ Returns
          /\ entries'[op.id] # 0
          /\ ent'[entries'[op.id]].subscription = op.subscription
          /\ op.subscription \in loadState(disk')]_vars


\* C36: every armed capture timer is the timer recorded in the runtime of
\* an entry that is in the managed set: no timer is armed in a runtime that
\* belongs to no managed entry, as the runtime of a subscription dropped by
\* removeSubscription or by a reconciliation would be.
C36_NoOrphanTimer ==
    \A r \in RtIds :
        rt[r].timer # 0 =>
            \E id \in Ids : entries[id] # 0 /\ RtOf(entries[id]) = r


\* the stable event of the current content of e's runtime has been emitted
Notified(e) ==
    /\ rt[RtOf(e)].lastHash # Undef
    /\ rt[RtOf(e)].lastNotifiedHash = rt[RtOf(e)].lastHash

\* C37: a failed capture does not re-arm the notification: it leaves
\* lastNotifiedHash as it is, and once the stable event of a content has
\* been emitted, a failed capture followed by any number of captures of the
\* same content emits no second one.
C37_FailureDoesNotRearm ==
    /\ [][\A e \in Entries :
            CaptureDone(e, Undef) =>
                rt'[RtOf(e)].lastNotifiedHash =
                    rt[RtOf(e)].lastNotifiedHash]_vars
    /\ [](\A e \in Entries :
            Notified(e) /\ hist[RtOf(e)].failed => hist[RtOf(e)].ev = 1)

\* C37, reached: the event was emitted, then a capture failed, then the
\* same content was captured often enough to reach the threshold again.
C37_Witness ==
    \E e \in Entries :
        LET h == hist[RtOf(e)]
        IN  /\ Notified(e) /\ h.failed /\ h.ev = 1
            /\ ~h.log[Len(h.log)].failed
            /\ h.run >= Threshold(e)
            /\ rt[RtOf(e)].stableTicks >= Threshold(e)


\* a step in which a pass that detected a change ends at a durable record
\* that cannot be read or parsed
FailsToLoad ==
    \E i \in 1..Len(passes) :
        /\ passes[i].pc = "load"
        /\ disk.doc.kind = "corrupt"
        /\ passes' = RemoveAt(passes, i)

\* C38: a reconciliation pass that detects a change but cannot read or
\* parse the durable record leaves the managed set, every capture timer
\* and the recorded modification time as they were, so that the next pass
\* still finds the modification time of the record different from the
\* recorded one.  (The callbacks that awaited the pass go on with pollWatch
\* in the same step: the guard of one whose entry is not watchable clears
\* that entry's timer.)
C38_UnreadableRecordChangesNothing ==
    [][FailsToLoad =>
          /\ entries' = entries
          /\ \A id \in Ids :
                entries[id] # 0 => ent'[entries[id]] = ent[entries[id]]
          /\ Len(rt') = Len(rt)
          /\ \A r \in RtIds :
                \/ rt'[r].timer = rt[r].timer
                \/ /\ rt'[r].timer = 0
                   /\ \E e \in Entries :
                         /\ ticks[e].waiting /\ RtOf(e) = r
                         /\ ~shouldWatchEntry(Heap, active, e)
          /\ stateMtimeMs' = stateMtimeMs
          /\ readStateMtimeMs(disk') # stateMtimeMs']_vars

\* C38, reached: a pass of an active manager with an armed timer has ended
\* at an unreadable record, which is still unseen and still differs in its
\* modification time.
C38_Witness ==
    /\ active /\ loaded /\ passes = <<>> /\ stateSyncPromise = "null"
    /\ disk.doc.kind = "corrupt" /\ ~disk.seen
    /\ readStateMtimeMs(disk) # stateMtimeMs
    /\ \E id \in Ids : entries[id] # 0 /\ rt[RtOf(entries[id])].timer = entries[id]
    /\ \E e \in EntryIds : ticks[e].capturing > 0


\* a step in which the loadState of a call of ensureLoaded returns and its
\* records are entered in the managed set
LoadsState ==
    \/ startPc = "load" /\ startPc' = "mtime"
    \/ op.pc = "load" /\ op'.pc = "mtime"

\* C39: the durable record is loaded into the managed set at most once:
\* the load of a concurrent first call replaces no entry that is already
\* in the managed set, so its runtime and its armed timer stay those of
\* the managed entry.
C39_LoadedOnce ==
    [][LoadsState =>
          \A id \in Ids :
              entries[id] # 0 =>
                  /\ entries'[id] = entries[id]
                  /\ ent'[entries'[id]].runtime = RtOf(entries[id])
                  /\ rt'[RtOf(entries[id])].timer = rt[RtOf(entries[id])].timer]_vars


\* a step in which the saveState of the call in flight fails
SaveFails == op.pc \in {"mkdir", "write"} /\ op'.kind = "none"

\* C40: when the write of the durable record fails during an upsert or a
\* removal, the managed set and the timers are as they were before the
\* call: after a failed upsert the entry of its id is the object that was
\* managed before (none for a new id), with its timer as it was when the
\* call found it, and after a failed removal the id is still managed.
C40_FailedWriteRollsBack ==
    [][SaveFails =>
          /\ op.kind = "add" => entries'[op.id] = op.existing
          /\ op.kind = "remove" => entries'[op.id] # 0]_vars

====
